---- MODULE Spec2Model ----
(***************************************************************************)
(* A model of the Portal Inmobiliario scraper package (src/scraper):       *)
(* the record extractor (extractors.py), the scrape orchestrator           *)
(* (scraper.py, __init__.py) and the page helpers (browser.py).            *)
(*                                                                         *)
(* Specifications: Spec, SpecTraced and SpecSteps (a whole run; the last   *)
(* two keep the origin of each record, or the steps of the run),           *)
(* SpecExtract (the card loop), SpecLocate (_find_articles), SpecAttrs     *)
(* (_extract_attributes), SpecScroll and FairScroll (scroll_to_bottom),    *)
(* SpecNext (go_to_next_page), SpecPopups (close_popups_and_modals) and    *)
(* SpecBoth (the package beside the script it was made from,               *)
(* src/scraper_simple.py).                                                 *)
(*                                                                         *)
(* Texts (markup, hrefs, attribute texts) are sequences or sets of         *)
(* symbols; a symbol stands for a run of characters that the code's        *)
(* substring tests and patterns treat as a unit.                           *)
(***************************************************************************)
EXTENDS Integers, Sequences, FiniteSets, TLC

VARIABLES
    pc,              \* position of the control flow
    comuna,          \* argument of scrape_properties
    max_pages,       \* argument of scrape_properties
    property_type,   \* argument of scrape_properties
    driver,          \* the Playwright driver p: "none", "running", "stopped"
    browser,         \* self.browser: "none", "open", "closed"
    context,         \* the browsing context: "none", "open", "closed"
    page,            \* self.page: "none", "open", "closed"
    seen_urls,       \* PropertyExtractor.seen_urls
    all_properties,  \* _scrape_pages: all_properties
    page_num,        \* _scrape_pages: page_num
    current_page,    \* _scrape_pages: current_page
    ret,             \* the value scrape is about to return
    result,          \* what the caller of scrape received
    log,             \* the lines printed that the claims are about
    hist,            \* history of the run (ghost)
    ex,              \* extract_properties: the card loop's locals, and the card in hand (ghost)
    output,          \* what scrape_properties returns
    fa,              \* _find_articles: the candidate loop
    sc,              \* scroll_to_bottom: its locals and the commands sent to the page
    nx,              \* go_to_next_page: the selector loop
    tx,              \* _extract_attributes on its own: the item texts and the dictionary
    cp,              \* close_popups_and_modals: the selector loop
    simple           \* scraper_simple.py: the locals of scrape_portal_inmobiliario

\* the state of the helpers that are also run on their own
helpers == <<fa, sc, nx, tx, cp>>

vars == <<pc, comuna, max_pages, property_type, driver, browser, context, page,
          seen_urls, all_properties, page_num, current_page, ret, result, log, hist, ex,
          output, helpers, simple>>

(***************************************************************************)
(* Bounds of the model.                                                    *)
(***************************************************************************)
MaxPages == 3        \* largest page budget tried
MaxCards == 5        \* largest number of cards a page shows to the orchestrator
MaxLoopCards == 5    \* largest number of cards in the extractor's card loop
MaxFound == 6        \* largest number of elements one article candidate matches
MaxTextLen == 3      \* longest attribute text made of any symbols

(***************************************************************************)
(* Constants of the program.                                               *)
(***************************************************************************)
MinArticlesThreshold == 5
BaseOrigin == "https://www.portalinmobiliario.com"
PillClass == "poly-pill__pill"
PillText == "PROYECTO"
AvailableUnits == "poly-component__available-units"
AvailableUnitsText == "unidades disponibles"
PropertyTypes == {"departamento", "casa"}

(***************************************************************************)
(* Texts.                                                                  *)
(***************************************************************************)
Digits == {"0", "1", "2", "3", "4", "5", "6", "7", "8", "9"}
Whitespace == {" "}

\* str.upper and str.lower, symbol by symbol
UpperSym(s) ==
    CASE s = "proyecto" -> "PROYECTO"
      [] s = "Proyecto" -> "PROYECTO"
      [] s = "poly-pill__pill" -> "POLY-PILL__PILL"
      [] s = "poly-component__available-units" -> "POLY-COMPONENT__AVAILABLE-UNITS"
      [] s = "unidades disponibles" -> "UNIDADES DISPONIBLES"
      [] s = "Unidades Disponibles" -> "UNIDADES DISPONIBLES"
      [] s = "div" -> "DIV"
      [] s = "dormitorio" -> "DORMITORIO"
      [] s = "baño" -> "BAÑO"
      [] s = "m" -> "M"
      [] s = "s" -> "S"
      [] OTHER -> s

LowerSym(s) ==
    CASE s = "PROYECTO" -> "proyecto"
      [] s = "Proyecto" -> "proyecto"
      [] s = "POLY-PILL__PILL" -> "poly-pill__pill"
      [] s = "POLY-COMPONENT__AVAILABLE-UNITS" -> "poly-component__available-units"
      [] s = "UNIDADES DISPONIBLES" -> "unidades disponibles"
      [] s = "Unidades Disponibles" -> "unidades disponibles"
      [] s = "DIV" -> "div"
      [] s = "DORMITORIO" -> "dormitorio"
      [] s = "Dormitorio" -> "dormitorio"
      [] s = "BAÑO" -> "baño"
      [] s = "Baño" -> "baño"
      [] s = "M" -> "m"
      [] s = "S" -> "s"
      [] OTHER -> s

Upper(syms) == {UpperSym(s) : s \in syms}
Lower(syms) == {LowerSym(s) : s \in syms}

LowerText(t) == [i \in 1..Len(t) |-> LowerSym(t[i])]

RECURSIVE LStrip(_)
LStrip(t) == IF t # <<>> /\ Head(t) \in Whitespace THEN LStrip(Tail(t)) ELSE t

RECURSIVE RStrip(_)
RStrip(t) ==
    IF t # <<>> /\ t[Len(t)] \in Whitespace THEN RStrip(SubSeq(t, 1, Len(t) - 1)) ELSE t

\* str.strip
Strip(t) == RStrip(LStrip(t))

\* an optional value: None, or a value
None == [some |-> FALSE, v |-> <<>>]
Some(x) == [some |-> TRUE, v |-> x]

(***************************************************************************)
(* The cards of a page, as the rendering engine presents them.             *)
(*   html   the outcome of article.inner_html(): a fault, or the set of    *)
(*          symbols the markup contains                                    *)
(*   links  the outcome of article.locator(property_link).all(): a fault,  *)
(*          or the links in DOM order; a link is the outcome of            *)
(*          get_attribute('href'): a fault, no attribute, or a text        *)
(*   attrs  the outcome of article.locator(attributes_list).all(): a       *)
(*          fault, or the items; an item is the outcome of inner_text()    *)
(*   loc    the location element: is_visible() raises, it is hidden, or it *)
(*          is visible and inner_text() gives a text or raises             *)
(***************************************************************************)
HrefFault == [kind |-> "fault", text |-> <<>>]
HrefAbsent == [kind |-> "absent", text |-> <<>>]
HrefText(t) == [kind |-> "text", text |-> t]

ItemFault == [ok |-> FALSE, text |-> <<>>]
ItemText(t) == [ok |-> TRUE, text |-> t]

HtmlFault == [ok |-> FALSE, syms |-> {}]
Html(syms) == [ok |-> TRUE, syms |-> syms]

LinksFault == [ok |-> FALSE, items |-> <<>>]
Links(items) == [ok |-> TRUE, items |-> items]

AttrsFault == [ok |-> FALSE, items |-> <<>>]
Attrs(items) == [ok |-> TRUE, items |-> items]

LocFault == [kind |-> "fault", text |-> <<>>]
LocHidden == [kind |-> "hidden", text |-> <<>>]
LocTextFault == [kind |-> "textfault", text |-> <<>>]
LocVisible(t) == [kind |-> "visible", text |-> t]

Card(h, l, a, o) == [html |-> h, links |-> l, attrs |-> a, loc |-> o]

(***************************************************************************)
(* extractors.py: the classifier.                                          *)
(***************************************************************************)
\* a plausible slip: the label compared in the case it is written in
IsProject_CaseSensitive(html_content) ==
    PillClass \in html_content /\ PillText \in html_content

IsProject(html_content) ==
    PillClass \in html_content /\ PillText \in Upper(html_content)

\* a plausible slip: the phrase compared in the case it is written in
IsMultiUnit_CaseSensitive(html_content) ==
    AvailableUnits \in html_content \/ AvailableUnitsText \in html_content

IsMultiUnit(html_content) ==
    AvailableUnits \in html_content \/ AvailableUnitsText \in Lower(html_content)

(***************************************************************************)
(* extractors.py: _extract_url.                                            *)
(***************************************************************************)
HttpSyms == {BaseOrigin, "http://espejo.example"}

StartsWithHttp(href) == href # <<>> /\ Head(href) \in HttpSyms
StartsWithSlash(href) == href # <<>> /\ Head(href) = "/"

\* a plausible slip: the origin and the href put together as they are
BuildFullUrl_NoSlash(href) ==
    IF StartsWithHttp(href) THEN href ELSE <<BaseOrigin>> \o href

BuildFullUrl(href) ==
    IF StartsWithHttp(href) THEN href
    ELSE IF StartsWithSlash(href) THEN <<BaseOrigin>> \o href
    ELSE <<BaseOrigin, "/">> \o href

\* a plausible slip: the membership test left out
IsNewUrl_Always(full_url, seen) == TRUE

IsNewUrl(full_url, seen) == full_url \notin seen

\* a plausible slip: only a missing attribute is passed over, not an empty one
NoHref_OnlyMissing(link) == link.kind = "absent"

\* if not href
NoHref(link) == link.kind = "absent" \/ link.text = <<>>

\* the loop over the links from link i on; dup_hits (ghost) counts the links
\* passed over because their URL was in seen_urls
RECURSIVE ExtractUrlFrom(_, _, _, _)
ExtractUrlFrom(links, i, seen, hits) ==
    IF i > Len(links) THEN [url |-> None, seen |-> seen, dup_hits |-> hits]
    ELSE LET link == links[i] IN
         IF link.kind = "fault" THEN ExtractUrlFrom(links, i + 1, seen, hits)
         ELSE IF NoHref(link)
              THEN ExtractUrlFrom(links, i + 1, seen, hits)
         ELSE LET full_url == BuildFullUrl(link.text) IN
              IF IsNewUrl(full_url, seen)
              THEN [url |-> Some(full_url), seen |-> seen \cup {full_url},
                    dup_hits |-> hits]
              ELSE ExtractUrlFrom(links, i + 1, seen, hits + 1)

ExtractUrl(links, seen) == ExtractUrlFrom(links, 1, seen, 0)

(***************************************************************************)
(* extractors.py: _extract_attributes.                                     *)
(***************************************************************************)
Contains(t, s) == \E i \in 1..Len(t) : t[i] = s
ContainsPair(t, a, b) == \E i \in 1..(Len(t) - 1) : t[i] = a /\ t[i + 1] = b

\* the end of the longest run of digits that starts at i
DigitRunEnd(t, i) ==
    CHOOSE e \in i..Len(t) :
        /\ \A k \in i..e : t[k] \in Digits
        /\ (e = Len(t) \/ t[e + 1] \notin Digits)

\* a plausible slip: a count of zero when the text has no number
SearchDigits_OrZero(t) ==
    LET starts == {i \in 1..Len(t) : t[i] \in Digits} IN
    IF starts = {} THEN Some(<<"0">>)
    ELSE LET i == CHOOSE x \in starts : \A y \in starts : x <= y
         IN Some(SubSeq(t, i, DigitRunEnd(t, i)))

\* re.search(r'(\d+)', text): group 1 of the leftmost match, or None
SearchDigits(t) ==
    LET starts == {i \in 1..Len(t) : t[i] \in Digits} IN
    IF starts = {} THEN None
    ELSE LET i == CHOOSE x \in starts : \A y \in starts : x <= y
         IN Some(SubSeq(t, i, DigitRunEnd(t, i)))

\* \s*m matches right after position p
SpacesThenM(t, p) ==
    \E q \in (p + 1)..Len(t) :
        /\ t[q] = "m"
        /\ \A k \in (p + 1)..(q - 1) : t[k] \in Whitespace

\* the ways (\d+(?:\.\d+)?)\s*m matches from i: <<end of \d+, end of group 1>>
AreaMatches(t, i) ==
    IF i > Len(t) \/ t[i] \notin Digits THEN {}
    ELSE LET maxE == DigitRunEnd(t, i) IN
         {m \in (i..maxE) \X (i..Len(t)) :
            /\ \/ m[2] = m[1]
               \/ /\ m[1] + 2 <= m[2]
                  /\ t[m[1] + 1] = "."
                  /\ \A k \in (m[1] + 2)..m[2] : t[k] \in Digits
            /\ SpacesThenM(t, m[2])}

\* re.search(r'(\d+(?:\.\d+)?)\s*m', text): group 1 of the leftmost match, the
\* greedy alternatives first
SearchArea(t) ==
    LET starts == {i \in 1..Len(t) : AreaMatches(t, i) # {}} IN
    IF starts = {} THEN None
    ELSE LET i == CHOOSE x \in starts : \A y \in starts : x <= y
             ms == AreaMatches(t, i)
             m == CHOOSE c \in ms : \A d \in ms :
                      c[1] > d[1] \/ (c[1] = d[1] /\ c[2] >= d[2])
         IN Some(SubSeq(t, i, m[2]))

NoAttributes == [dormitorios |-> None, banos |-> None, superficie |-> None]

\* a plausible slip: three separate tests in place of if / elif / elif
ClassifyItem_EachTest(attributes, raw) ==
    LET text == Strip(raw)
        lower == LowerText(text)
        a1 == IF Contains(lower, "dormitorio") /\ SearchDigits(text).some
              THEN [attributes EXCEPT !.dormitorios = Some(SearchDigits(text).v)]
              ELSE attributes
        a2 == IF Contains(lower, "baño") /\ SearchDigits(text).some
              THEN [a1 EXCEPT !.banos = Some(SearchDigits(text).v)]
              ELSE a1
    IN IF (ContainsPair(text, "m", "²") \/ ContainsPair(lower, "m", "2"))
          /\ SearchArea(text).some
       THEN [a2 EXCEPT !.superficie = Some(SearchArea(text).v \o <<" ", "m", "²">>)]
       ELSE a2

\* one pass of the loop body over an item's text
ClassifyItem(attributes, raw) ==
    LET text == Strip(raw)
        lower == LowerText(text)
    IN IF Contains(lower, "dormitorio")
       THEN LET match == SearchDigits(text) IN
            IF match.some THEN [attributes EXCEPT !.dormitorios = Some(match.v)]
            ELSE attributes
       ELSE IF Contains(lower, "baño")
       THEN LET match == SearchDigits(text) IN
            IF match.some THEN [attributes EXCEPT !.banos = Some(match.v)]
            ELSE attributes
       ELSE IF ContainsPair(text, "m", "²") \/ ContainsPair(lower, "m", "2")
       THEN LET match == SearchArea(text) IN
            IF match.some
            THEN [attributes EXCEPT !.superficie = Some(match.v \o <<" ", "m", "²">>)]
            ELSE attributes
       ELSE attributes

\* the loop over the items from item i on; an item whose inner_text() raises
\* ends the loop, and what was read before it is kept
RECURSIVE AttributesFrom(_, _, _)
AttributesFrom(items, i, attributes) ==
    IF i > Len(items) THEN attributes
    ELSE IF ~items[i].ok THEN attributes
    ELSE AttributesFrom(items, i + 1, ClassifyItem(attributes, items[i].text))

ExtractAttributes(article) ==
    IF ~article.attrs.ok THEN NoAttributes
    ELSE AttributesFrom(article.attrs.items, 1, NoAttributes)

(***************************************************************************)
(* extractors.py: _extract_location.                                       *)
(***************************************************************************)
ExtractLocation(article) ==
    IF article.loc.kind = "visible" THEN Some(Strip(article.loc.text)) ELSE None

(***************************************************************************)
(* extractors.py: extract_properties.                                      *)
(*                                                                         *)
(* The card loop's state: the instance's seen_urls, the page's properties  *)
(* list, the four counters, whether an exception left the loop, and        *)
(* dup_hits and origins (ghost): the links passed over as duplicates, and  *)
(* for each record of the list the position of its card on the page.       *)
(***************************************************************************)
\* a plausible slip: the index started anew on every page, as in the script
\* this package was made from
LoopStart_Fresh(seen) ==
    [seen |-> {}, properties |-> <<>>, total_analyzed |-> 0, skipped_proyecto |-> 0,
     skipped_unidades |-> 0, added |-> 0, raised |-> FALSE, dup_hits |-> 0,
     origins |-> <<>>]

\* extract_properties before the card loop
LoopStart(seen) ==
    [seen |-> seen, properties |-> <<>>, total_analyzed |-> 0, skipped_proyecto |-> 0,
     skipped_unidades |-> 0, added |-> 0, raised |-> FALSE, dup_hits |-> 0,
     origins |-> <<>>]

Property(url, attributes, location) ==
    [url |-> url, dormitorios |-> attributes.dormitorios, banos |-> attributes.banos,
     superficie |-> attributes.superficie, ubicacion |-> location]

\* a plausible slip: no handler at the per-card boundary, the exception leaves the loop
CardFault_Propagates(st) == [st EXCEPT !.raised = TRUE]

\* except Exception: continue
CardFault(st) == st

\* a plausible slip: the two filters in the other order
ProcessCard_UnitsFirst(article, st0) ==
    LET st == [st0 EXCEPT !.total_analyzed = @ + 1] IN
    IF ~article.html.ok THEN CardFault(st)
    ELSE IF IsMultiUnit(article.html.syms)
         THEN [st EXCEPT !.skipped_unidades = @ + 1]
    ELSE IF IsProject(article.html.syms)
         THEN [st EXCEPT !.skipped_proyecto = @ + 1]
    ELSE IF ~article.links.ok THEN CardFault(st)
    ELSE LET u == ExtractUrl(article.links.items, st.seen) IN
         IF ~u.url.some
         THEN [st EXCEPT !.dup_hits = @ + u.dup_hits]
         ELSE LET attributes == ExtractAttributes(article)
                  location == ExtractLocation(article)
                  property_obj == Property(u.url.v, attributes, location)
              IN [st EXCEPT !.seen = u.seen,
                            !.properties = Append(@, property_obj),
                            !.added = @ + 1,
                            !.dup_hits = @ + u.dup_hits,
                            !.origins = Append(@, st.total_analyzed)]

\* a plausible slip: the URL taken before the card is classified
ProcessCard_UrlFirst(article, st0) ==
    LET st == [st0 EXCEPT !.total_analyzed = @ + 1] IN
    IF ~article.html.ok \/ ~article.links.ok THEN CardFault(st)
    ELSE LET u == ExtractUrl(article.links.items, st.seen) IN
         IF IsProject(article.html.syms)
         THEN [st EXCEPT !.seen = u.seen, !.skipped_proyecto = @ + 1]
         ELSE IF IsMultiUnit(article.html.syms)
         THEN [st EXCEPT !.seen = u.seen, !.skipped_unidades = @ + 1]
         ELSE IF ~u.url.some
         THEN [st EXCEPT !.dup_hits = @ + u.dup_hits]
         ELSE LET attributes == ExtractAttributes(article)
                  location == ExtractLocation(article)
                  property_obj == Property(u.url.v, attributes, location)
              IN [st EXCEPT !.seen = u.seen,
                            !.properties = Append(@, property_obj),
                            !.added = @ + 1,
                            !.dup_hits = @ + u.dup_hits,
                            !.origins = Append(@, st.total_analyzed)]

\* a plausible slip: _extract_attributes without its own handler, so that a
\* fault in it reaches the per-card handler after the URL was inserted
ProcessCard_AttrsUnguarded(article, st0) ==
    LET st == [st0 EXCEPT !.total_analyzed = @ + 1] IN
    IF ~article.html.ok THEN CardFault(st)
    ELSE IF IsProject(article.html.syms)
         THEN [st EXCEPT !.skipped_proyecto = @ + 1]
    ELSE IF IsMultiUnit(article.html.syms)
         THEN [st EXCEPT !.skipped_unidades = @ + 1]
    ELSE IF ~article.links.ok THEN CardFault(st)
    ELSE LET u == ExtractUrl(article.links.items, st.seen) IN
         IF ~u.url.some
         THEN [st EXCEPT !.dup_hits = @ + u.dup_hits]
         ELSE IF ~article.attrs.ok
              THEN CardFault([st EXCEPT !.seen = u.seen, !.dup_hits = @ + u.dup_hits])
         ELSE LET attributes == ExtractAttributes(article)
                  location == ExtractLocation(article)
                  property_obj == Property(u.url.v, attributes, location)
              IN [st EXCEPT !.seen = u.seen,
                            !.properties = Append(@, property_obj),
                            !.added = @ + 1,
                            !.dup_hits = @ + u.dup_hits,
                            !.origins = Append(@, st.total_analyzed)]

\* one pass of the loop body
ProcessCard(article, st0) ==
    LET st == [st0 EXCEPT !.total_analyzed = @ + 1] IN
    IF ~article.html.ok THEN CardFault(st)
    ELSE IF IsProject(article.html.syms)
         THEN [st EXCEPT !.skipped_proyecto = @ + 1]
    ELSE IF IsMultiUnit(article.html.syms)
         THEN [st EXCEPT !.skipped_unidades = @ + 1]
    ELSE IF ~article.links.ok THEN CardFault(st)
    ELSE LET u == ExtractUrl(article.links.items, st.seen) IN
         IF ~u.url.some
         THEN [st EXCEPT !.dup_hits = @ + u.dup_hits]
         ELSE LET attributes == ExtractAttributes(article)
                  location == ExtractLocation(article)
                  property_obj == Property(u.url.v, attributes, location)
              IN [st EXCEPT !.seen = u.seen,
                            !.properties = Append(@, property_obj),
                            !.added = @ + 1,
                            !.dup_hits = @ + u.dup_hits,
                            !.origins = Append(@, st.total_analyzed)]

\* _find_articles: the candidates' outcomes in order; a candidate is a fault or
\* the list of elements it matched
CandFault == [ok |-> FALSE, found |-> <<>>]
Cand(found) == [ok |-> TRUE, found |-> found]

\* a plausible slip: the test of the script this package was made from
Accepts_MoreThan(cand) ==
    cand.ok /\ cand.found # <<>> /\ Len(cand.found) > MinArticlesThreshold

\* if found and len(found) >= EXTRACTION_CONFIG['min_articles_threshold']
Accepts(cand) ==
    cand.ok /\ cand.found # <<>> /\ Len(cand.found) >= MinArticlesThreshold

RECURSIVE FindArticlesFrom(_, _)
FindArticlesFrom(cands, i) ==
    IF i > Len(cands) THEN None
    ELSE IF Accepts(cands[i]) THEN Some(cands[i].found)
    ELSE FindArticlesFrom(cands, i + 1)

FindArticles(cands) == FindArticlesFrom(cands, 1)

RECURSIVE CardLoop(_, _, _)
CardLoop(articles, i, st) ==
    IF i > Len(articles) \/ st.raised THEN st
    ELSE CardLoop(articles, i + 1, ProcessCard(articles[i], st))

\* a plausible slip: a page without cards taken for a fault
ExtractProperties_RaiseOnNone(cands, seen) ==
    LET articles == FindArticles(cands) IN
    IF ~articles.some \/ articles.v = <<>> THEN [LoopStart(seen) EXCEPT !.raised = TRUE]
    ELSE CardLoop(articles.v, 1, LoopStart(seen))

\* extract_properties on a page whose article candidates give cands
ExtractProperties(cands, seen) ==
    LET articles == FindArticles(cands) IN
    IF ~articles.some \/ articles.v = <<>> THEN LoopStart(seen)
    ELSE CardLoop(articles.v, 1, LoopStart(seen))

(***************************************************************************)
(* The inputs the orchestrator is run on.                                  *)
(***************************************************************************)
RelU1 == <<"/", "MLC-1">>
AbsU1 == <<BaseOrigin, "/", "MLC-1">>
RelU2 == <<"/", "MLC-2">>
BareU2 == <<"MLC-2">>

Comunas == {<<>>, <<" ", " ">>, <<" ", "ñuñoa">>}
Budgets == (-1)..MaxPages
RequestedTypes == PropertyTypes \cup {"parcela"}

PlainCard(links) == Card(Html({"div"}), Links(links), Attrs(<<>>), LocHidden)

OrchCards ==
    { PlainCard(<<HrefText(RelU1)>>),
      PlainCard(<<HrefText(AbsU1), HrefText(BareU2)>>),
      Card(Html({PillClass, "Proyecto"}), Links(<<HrefText(RelU2)>>), Attrs(<<>>), LocHidden) }

\* the outcomes of the four article candidates on a page
OrchPages ==
    {<<CandFault, Cand(<<>>), Cand(<<>>), Cand(<<>>)>>}
    \cup {<<Cand(f), Cand(<<>>), Cand(<<>>), Cand(<<>>)>> :
            f \in UNION {[1..n -> OrchCards] : n \in MinArticlesThreshold..MaxCards}}

(***************************************************************************)
(* __init__.py: scrape_properties, the validation of the parameters.       *)
(***************************************************************************)
\* a plausible slip: the check of property_type left out
Validate_NoTypeCheck(c, n, t) ==
    IF c = <<>> \/ Strip(c) = <<>> THEN "comuna parameter cannot be empty"
    ELSE IF n < 1 THEN "max_pages must be at least 1"
    ELSE "ok"

Validate(c, n, t) ==
    IF c = <<>> \/ Strip(c) = <<>> THEN "comuna parameter cannot be empty"
    ELSE IF n < 1 THEN "max_pages must be at least 1"
    ELSE IF t \notin PropertyTypes THEN "property_type must be 'departamento' or 'casa'"
    ELSE "ok"

NoResult == [kind |-> "none", value |-> [records |-> <<>>], error |-> ""]
Raised(e) == [kind |-> "raised", value |-> [records |-> <<>>], error |-> e]
Returned(v) == [kind |-> "returned", value |-> v, error |-> ""]

\* what scrape returns: the list of records, and nothing else
RunResult(properties) == [records |-> properties]

NoLog == [error |-> FALSE, next_not_found |-> FALSE, pages_processed |-> 0]

NoHist == [fault |-> "none", launches |-> 0, navigations |-> 0, pages_extracted |-> 0,
           advance_calls |-> 0, advance_false_at |-> 0, dup_hits |-> 0,
           accumulated |-> 0, origin |-> <<>>, trace |-> "none", events |-> <<>>,
           located |-> 0, matches |-> <<>>]

\* the history of a run whose steps are traced (ghost): events lists the steps
\* of the run in order, located counts the pages whose cards were looked for,
\* matches is what the article candidates matched on the last of them (-1: it
\* raised)
Log(h, steps) == IF h.trace = "steps" THEN [h EXCEPT !.events = @ \o steps] ELSE h

\* the card loop's locals: n cards found, i of them passed, the page's list and
\* counters; and (ghost) the card of the last pass, the list and seen_urls as they
\* were before it, how far the page got: 0 nothing emitted yet, 1 a card
\* emitted, 2 a later card dropped by a fault, 3 a card emitted after that; and
\* the URLs of the links of the cards of the page skipped as project or
\* multi-unit
NoEx == [n |-> 0, i |-> 0, properties |-> <<>>, total_analyzed |-> 0,
         skipped_proyecto |-> 0, skipped_unidades |-> 0, added |-> 0,
         card |-> PlainCard(<<>>), before |-> <<>>, seen_before |-> {}, phase |-> 0,
         skipped_urls |-> {}]

\* scrape_portal_inmobiliario before it is called: its list, its loop
\* variables, and whether its loop is running
NoSimple == [all_properties |-> <<>>, page_num |-> 0, current_page |-> 0, running |-> FALSE]

\* scrape_properties has not returned
NoOutput == [kind |-> "none", columns |-> <<>>, rows |-> <<>>]

\* what the page answers while one next_button selector is tried: is_visible and
\* the disabled predicate raise or give a value; scroll_into_view_if_needed
\* raises or not; click raises before the click is dispatched, after it, or not
\* at all; wait_for_load_state raises or not
Answer(v, d, s, c, w) == [visible |-> v, is_disabled |-> d, scroll |-> s, click |-> c, wait |-> w]

\* the helpers before they are called
\*   fa  _find_articles: i candidates evaluated, what each gave (ghost), the
\*       list returned
\*   sc  scroll_to_bottom: last_height and scroll_attempts, and (ghost) the
\*       heights measured and the scroll commands sent, in order
\*   nx  go_to_next_page: i selectors tried, the value returned, and (ghost) the
\*       clicks dispatched and the controls scrolled into view, both as they
\*       are and as they were before the last selector was tried, what the
\*       disabled predicate gave so far, the page's last answer
\*   tx  _extract_attributes: the card's attribute items, the dictionary returned
\*   cp  close_popups_and_modals: i selectors tried, and (ghost) the selectors
\*       tried, in order, those whose element was visible, those whose element
\*       was clicked, and the page's last answer: what is_visible gave and
\*       what click did
HelpersIdle ==
    /\ fa = [i |-> 0, outcomes |-> <<>>, articles |-> None]
    /\ sc = [last_height |-> 0, scroll_attempts |-> 0, measured |-> <<>>, commands |-> <<>>]
    /\ nx = [i |-> 0, returned |-> None, clicks |-> 0, before |-> 0, scrolls |-> 0,
             scrolls_before |-> 0, saw_disabled |-> FALSE, saw_enabled |-> FALSE,
             last |-> Answer("no", "no", "ok", "ok", "ok")]
    /\ tx = [attrs |-> Attrs(<<>>), attributes |-> NoAttributes]
    /\ cp = [i |-> 0, tried |-> <<>>, shown |-> {}, clicked |-> <<>>,
             last |-> <<"no", "ok">>]

Start(h) ==
    /\ pc = "call"
    /\ comuna \in Comunas
    /\ max_pages \in Budgets
    /\ property_type \in RequestedTypes
    /\ driver = "none"
    /\ browser = "none"
    /\ context = "none"
    /\ page = "none"
    /\ seen_urls = {}
    /\ all_properties = <<>>
    /\ page_num = 0
    /\ current_page = 0
    /\ ret = NoResult.value
    /\ result = NoResult
    /\ log = NoLog
    /\ hist = h
    /\ ex = NoEx
    /\ output = NoOutput
    /\ simple = NoSimple
    /\ HelpersIdle

Init == Start(NoHist)

\* scrape_properties up to the call of scraper.scrape: the validation, and
\* PortalInmobiliarioScraper.__init__
ScrapeProperties ==
    /\ pc = "call"
    /\ LET err == Validate(comuna, max_pages, property_type) IN
       IF err # "ok"
       THEN /\ pc' = "rejected"
            /\ result' = Raised(err)
       ELSE /\ pc' = "setup_driver"
            /\ result' = result
    /\ seen_urls' = {}
    /\ browser' = "none"
    /\ page' = "none"
    /\ UNCHANGED <<output, helpers, simple, comuna, max_pages, property_type, driver, context,
                   all_properties, page_num, current_page, ret, log, hist, ex>>

(***************************************************************************)
(* scraper.py: scrape, the try block.  A step that raises goes to the      *)
(* except clause.                                                          *)
(***************************************************************************)
Fault(where) ==
    /\ pc' = "except"
    /\ hist' = [hist EXCEPT !.fault = where, !.accumulated = Len(all_properties)]

\* _setup_browser: p = sync_playwright().start()
SetupDriver ==
    /\ pc = "setup_driver"
    /\ \/ /\ driver' = "running"
          /\ pc' = "setup_launch"
          /\ hist' = hist
       \/ /\ driver' = driver
          /\ Fault("driver")
    /\ UNCHANGED <<output, helpers, simple, comuna, max_pages, property_type, browser, context, page, seen_urls,
                   all_properties, page_num, current_page, ret, result, log, ex>>

\* _setup_browser: self.browser = p.chromium.launch(...)
SetupLaunch ==
    /\ pc = "setup_launch"
    /\ \/ /\ browser' = "open"
          /\ pc' = "setup_context"
          /\ hist' = [hist EXCEPT !.launches = @ + 1]
       \/ /\ browser' = browser
          /\ Fault("launch")
    /\ UNCHANGED <<output, helpers, simple, comuna, max_pages, property_type, driver, context, page, seen_urls,
                   all_properties, page_num, current_page, ret, result, log, ex>>

\* _setup_browser: context = self.browser.new_context(...)
SetupContext ==
    /\ pc = "setup_context"
    /\ \/ /\ context' = "open"
          /\ pc' = "setup_page"
          /\ hist' = hist
       \/ /\ context' = context
          /\ Fault("context")
    /\ UNCHANGED <<output, helpers, simple, comuna, max_pages, property_type, driver, browser, page, seen_urls,
                   all_properties, page_num, current_page, ret, result, log, ex>>

\* _setup_browser: self.page = context.new_page()
SetupPage ==
    /\ pc = "setup_page"
    /\ \/ /\ page' = "open"
          /\ pc' = "setup_goto"
          /\ hist' = hist
       \/ /\ page' = page
          /\ Fault("new_page")
    /\ UNCHANGED <<output, helpers, simple, comuna, max_pages, property_type, driver, browser, context, seen_urls,
                   all_properties, page_num, current_page, ret, result, log, ex>>

\* _setup_browser: self.page.goto(...), the wait, close_popups_and_modals (which
\* never raises); then _scrape_pages up to the first pass of its loop
SetupGoto ==
    /\ pc = "setup_goto"
    /\ \/ /\ hist' = Log([hist EXCEPT !.navigations = @ + 1], <<"goto", "dismiss">>)
          /\ all_properties' = <<>>
          /\ IF 1 <= max_pages
             THEN /\ pc' = "process"
                  /\ page_num' = 1
                  /\ current_page' = 1
             ELSE /\ pc' = "summary"
                  /\ page_num' = page_num
                  /\ current_page' = 1
       \/ /\ Fault("goto")
          /\ UNCHANGED <<all_properties, page_num, current_page>>
    /\ UNCHANGED <<output, helpers, simple, comuna, max_pages, property_type, driver, browser, context, page,
                   seen_urls, ret, result, log, ex>>

\* a plausible slip: the test that the page is not the last one off by one
ShouldNavigate_Inclusive(n, budget) == n <= budget

\* if page_num < max_pages
ShouldNavigate(n, budget) == n < budget

\* _scrape_pages: one pass of the loop up to the test for the last page:
\* _process_single_page (scroll_to_bottom, which may raise, then
\* extract_properties) and all_properties.extend
\* a plausible slip: the page's records put in front of the list
Extend_InFront(list, page_properties) == page_properties \o list

\* a plausible slip: the list assigned, not extended
Extend_Assigned(list, page_properties) == page_properties

\* all_properties.extend(page_properties)
Extend(list, page_properties) == list \o page_properties

\* _process_single_page (scroll_to_bottom, then extract_properties) and the
\* extension of all_properties, on a page out of pages; in a run whose
\* origins are traced hist.origin (ghost) keeps for each record of
\* all_properties the page it was emitted on and its card's position there
ProcessPage(pages) ==
    /\ pc = "process"
    /\ \/ /\ Fault("stabilize")
          /\ UNCHANGED <<seen_urls, all_properties>>
       \/ \E cands \in pages :
             LET r == ExtractProperties(cands, seen_urls)
                 h == IF hist.trace = "steps"
                      THEN [hist EXCEPT
                              !.located = @ + 1,
                              !.matches = [k \in 1..Len(cands) |->
                                             IF cands[k].ok THEN Len(cands[k].found)
                                             ELSE -1]]
                      ELSE hist
             IN
             IF r.raised
             THEN /\ pc' = "except"
                  /\ hist' = Log([h EXCEPT !.fault = "extract",
                                           !.accumulated = Len(all_properties)],
                                 <<"stabilize">>)
                  /\ seen_urls' = r.seen
                  /\ all_properties' = all_properties
             ELSE /\ seen_urls' = r.seen
                  /\ all_properties' = Extend(all_properties, r.properties)
                  /\ hist' = Log([h EXCEPT
                                    !.pages_extracted = @ + 1,
                                    !.dup_hits = @ + r.dup_hits,
                                    !.origin = IF hist.trace = "origins"
                                               THEN Extend(@, [k \in 1..Len(r.origins) |->
                                                                  <<page_num, r.origins[k]>>])
                                               ELSE @],
                                 <<"stabilize", "extract">>)
                  /\ pc' = IF ShouldNavigate(page_num, max_pages)
                           THEN "navigate" ELSE "summary"
    /\ UNCHANGED <<output, helpers, simple, comuna, max_pages, property_type, driver, browser, context, page,
                   page_num, current_page, ret, result, log, ex>>

ProcessSinglePage == ProcessPage(OrchPages)

\* a plausible slip: the early stop not reported
WarnNextNotFound_Silent(l) == l

\* print("Next button not found or last page reached")
WarnNextNotFound(l) == [l EXCEPT !.next_not_found = TRUE]

\* a plausible slip: a fault of the scroll towards the pagination let through
ViewRaises_Unhandled(view) == view = "fallback_raised"

\* _navigate_to_next_page: try: ... except Exception: pass
ViewRaises(view) == FALSE

\* a plausible slip: the loop goes on after an advance that returned False
Continues_Always(advanced) == TRUE

\* if not self._navigate_to_next_page(): ... break
Continues(advanced) == advanced

\* _scrape_pages: _navigate_to_next_page and the rest of the pass: the break
\* when it returns False, else the next pass of the loop.  In
\* _navigate_to_next_page the popups are closed, then the pagination is
\* brought into view (a container is found visible and scrolled to, or none
\* is and the window is scrolled near the bottom, or that scroll raises), then
\* go_to_next_page is called and its value returned
NavigateToNextPage ==
    /\ pc = "navigate"
    /\ \E view \in {"found", "fallback", "fallback_raised"}, advanced \in BOOLEAN :
          IF ViewRaises(view)
          THEN /\ pc' = "except"
               /\ hist' = Log([hist EXCEPT !.fault = "view",
                                           !.accumulated = Len(all_properties)],
                              <<"dismiss", view>>)
               /\ UNCHANGED <<log, page_num, current_page>>
          ELSE /\ hist' = Log([hist EXCEPT
                                 !.advance_calls = @ + 1,
                                 !.navigations = IF advanced THEN @ + 1 ELSE @,
                                 !.advance_false_at = IF advanced THEN @ ELSE page_num],
                              <<"dismiss", view,
                                IF advanced THEN "advance_true" ELSE "advance_false">>)
               /\ log' = IF advanced THEN log ELSE WarnNextNotFound(log)
               /\ IF Continues(advanced) /\ page_num + 1 <= max_pages
                  THEN /\ pc' = "process"
                       /\ page_num' = page_num + 1
                       /\ current_page' = page_num + 1
                  ELSE /\ pc' = "summary"
                       /\ UNCHANGED <<page_num, current_page>>
    /\ UNCHANGED <<output, helpers, simple, comuna, max_pages, property_type, driver, browser, context, page,
                   seen_urls, all_properties, ret, result, ex>>

\* _scrape_pages: _print_summary and return all_properties
PrintSummary ==
    /\ pc = "summary"
    /\ log' = [log EXCEPT !.pages_processed = current_page]
    /\ ret' = RunResult(all_properties)
    /\ pc' = "cleanup"
    /\ UNCHANGED <<output, helpers, simple, comuna, max_pages, property_type, driver, browser, context, page,
                   seen_urls, all_properties, page_num, current_page, result, hist, ex>>

\* a plausible slip: the records collected so far returned after a fault
ExceptResult_Partial(properties) == properties

\* except Exception: ... return []
ExceptResult(properties) == <<>>

\* scrape: the except clause
ExceptHandler ==
    /\ pc = "except"
    /\ log' = [log EXCEPT !.error = TRUE]
    /\ ret' = RunResult(ExceptResult(all_properties))
    /\ pc' = "cleanup"
    /\ UNCHANGED <<output, helpers, simple, comuna, max_pages, property_type, driver, browser, context, page,
                   seen_urls, all_properties, page_num, current_page, result, hist, ex>>

Close(resource) == IF resource = "open" THEN "closed" ELSE resource

\* scrape: the finally clause, _cleanup, and what the caller of scrape receives.
\* browser.close() closes the browser with its contexts and pages; it may raise,
\* and the exception then replaces the return value
Cleanup ==
    /\ pc = "cleanup"
    /\ IF browser # "none"
       THEN \/ /\ browser' = Close(browser)
               /\ context' = Close(context)
               /\ page' = Close(page)
               /\ pc' = "returned"
               /\ result' = Returned(ret)
            \/ /\ pc' = "raised"
               /\ result' = Raised("close")
               /\ UNCHANGED <<browser, context, page>>
       ELSE /\ pc' = "returned"
            /\ result' = Returned(ret)
            /\ UNCHANGED <<browser, context, page>>
    /\ UNCHANGED <<output, helpers, simple, comuna, max_pages, property_type, driver, seen_urls, all_properties,
                   page_num, current_page, ret, log, hist, ex>>

\* Property.to_dict: the keys in the order they are inserted, and the values
ToDict(property_obj) ==
    [keys |-> <<"url", "dormitorios", "banos", "superficie", "ubicacion">>,
     values |-> property_obj]

\* pd.DataFrame(list of dicts): the columns are the keys of the dicts in the
\* order they first appear, so an empty list gives a table with no columns
DataFrame(dicts) ==
    [kind |-> "dataframe",
     columns |-> IF dicts = <<>> THEN <<>> ELSE dicts[1].keys,
     rows |-> [k \in 1..Len(dicts) |-> dicts[k].values]]

\* scrape_properties after scraper.scrape has returned: the files are saved
\* (save_to_csv and save_urls_to_file handle their own faults) and the records
\* are returned in the format asked for
ScrapeReturn ==
    /\ pc = "returned"
    /\ \E return_dataframe \in BOOLEAN :
          LET properties == result.value.records IN
          output' = IF return_dataframe
                    THEN DataFrame([k \in 1..Len(properties) |-> ToDict(properties[k])])
                    ELSE [kind |-> "list", columns |-> <<>>, rows |-> properties]
    /\ pc' = "delivered"
    /\ UNCHANGED <<helpers, simple, comuna, max_pages, property_type, driver, browser, context, page,
                   seen_urls, all_properties, page_num, current_page, ret, result, log, hist,
                   ex>>

Next ==
    \/ ScrapeProperties
    \/ SetupDriver
    \/ SetupLaunch
    \/ SetupContext
    \/ SetupPage
    \/ SetupGoto
    \/ ProcessSinglePage
    \/ NavigateToNextPage
    \/ PrintSummary
    \/ ExceptHandler
    \/ Cleanup
    \/ ScrapeReturn

Spec == Init /\ [][Next]_vars

(***************************************************************************)
(* The orchestrator over pages of two kinds of cards, with the origin of   *)
(* each record kept.                                                       *)
(***************************************************************************)
TracedPages ==
    {<<Cand(f), Cand(<<>>), Cand(<<>>), Cand(<<>>)>> :
        f \in UNION {[1..n -> {PlainCard(<<HrefText(RelU1)>>),
                               PlainCard(<<HrefText(AbsU1), HrefText(BareU2)>>)}] :
                       n \in MinArticlesThreshold..MaxCards}}

ProcessTracedPage == ProcessPage(TracedPages)

InitTraced == Start([NoHist EXCEPT !.trace = "origins"])

NextTraced ==
    \/ ScrapeProperties
    \/ SetupDriver
    \/ SetupLaunch
    \/ SetupContext
    \/ SetupPage
    \/ SetupGoto
    \/ ProcessTracedPage
    \/ NavigateToNextPage
    \/ PrintSummary
    \/ ExceptHandler
    \/ Cleanup
    \/ ScrapeReturn

SpecTraced == InitTraced /\ [][NextTraced]_vars

(***************************************************************************)
(* The orchestrator with the steps of the run kept in order, over pages    *)
(* that give cards at the first candidate (plain cards, or project cards,  *)
(* which are skipped), or at the second after the first raised, or at      *)
(* none.                                                                   *)
(***************************************************************************)
StepPages ==
    LET cards(n, u) == [k \in 1..n |-> PlainCard(<<HrefText(u)>>)] IN
    { <<Cand(cards(MinArticlesThreshold, RelU1)), Cand(<<>>), Cand(<<>>), Cand(<<>>)>>,
      <<Cand([k \in 1..MinArticlesThreshold |->
                Card(Html({PillClass, "Proyecto"}), Links(<<HrefText(AbsU1)>>), Attrs(<<>>),
                     LocHidden)]),
        Cand(<<>>), Cand(<<>>), Cand(<<>>)>>,
      <<CandFault, Cand(cards(MinArticlesThreshold, RelU2)), Cand(<<>>), Cand(<<>>)>>,
      <<CandFault, Cand(<<>>), Cand(cards(MinArticlesThreshold - 1, RelU2)), CandFault>>,
      <<Cand(<<>>), Cand(<<>>), Cand(<<>>), Cand(<<>>)>> }

ProcessStepPage == ProcessPage(StepPages)

InitSteps == Start([NoHist EXCEPT !.trace = "steps"])

NextSteps ==
    \/ ScrapeProperties
    \/ SetupDriver
    \/ SetupLaunch
    \/ SetupContext
    \/ SetupPage
    \/ SetupGoto
    \/ ProcessStepPage
    \/ NavigateToNextPage
    \/ PrintSummary
    \/ ExceptHandler
    \/ Cleanup
    \/ ScrapeReturn

SpecSteps == InitSteps /\ [][NextSteps]_vars

(***************************************************************************)
(* The extractor alone, one pass of its card loop at a time, over pages    *)
(* of any cards; the same instance is used for page after page.            *)
(***************************************************************************)
Markups ==
    { {}, {"div"}, {PillClass}, {PillClass, PillText}, {PillClass, "proyecto"},
      {PillClass, "Proyecto"}, {"POLY-PILL__PILL", PillText}, {PillText},
      {AvailableUnits}, {AvailableUnitsText}, {"Unidades Disponibles"},
      {"POLY-COMPONENT__AVAILABLE-UNITS"}, {PillClass, AvailableUnitsText},
      {PillClass, PillText, AvailableUnits} }

DormitoriosText == <<"3", " ", "dormitorio", "s">>
BanosText == <<"2", " ", "baño", "s">>
LocationText == <<" ", "Ñuñoa", " ">>

\* cards that differ in their markup
MarkedCards ==
    {Card(Html(m), Links(<<HrefText(AbsU1), HrefText(BareU2)>>), Attrs(<<>>), LocHidden) :
        m \in Markups}
    \cup {PlainCard(<<HrefText(RelU1)>>)}

\* cards on which a step raises, or that have no link to use
FaultyCards ==
    {Card(HtmlFault, Links(<<HrefText(RelU2)>>), Attrs(<<>>), LocHidden)}
    \cup {Card(Html({"div"}), l, Attrs(<<>>), LocHidden) :
            l \in {LinksFault, Links(<<>>), Links(<<HrefAbsent, HrefText(<<>>)>>)}}
    \cup {Card(Html({"div"}), Links(<<HrefFault, HrefText(RelU2)>>), ao[1], ao[2]) :
            ao \in {<<Attrs(<<>>), LocVisible(LocationText)>>,
                    <<AttrsFault, LocFault>>,
                    <<Attrs(<<ItemText(DormitoriosText), ItemFault, ItemText(BanosText)>>),
                      LocTextFault>>}}

LoopCards == MarkedCards \cup FaultyCards

Slots(n) == [k \in 1..n |-> k]

\* the outcomes of the four article candidates, as lists of element handles
LoopPages ==
    {<<c1, c2, Cand(<<>>), Cand(<<>>)>> :
        c1 \in {CandFault, Cand(<<>>), Cand(Slots(MinArticlesThreshold - 1))}
               \cup {Cand(Slots(n)) : n \in MinArticlesThreshold..MaxLoopCards},
        c2 \in {Cand(<<>>), Cand(Slots(MinArticlesThreshold))}}

InitExtract ==
    /\ pc = "ex_idle"
    /\ comuna = <<" ", "ñuñoa">>
    /\ max_pages = 1
    /\ property_type = "departamento"
    /\ driver = "none"
    /\ browser = "none"
    /\ context = "none"
    /\ page = "none"
    /\ seen_urls = {}
    /\ all_properties = <<>>
    /\ page_num = 0
    /\ current_page = 0
    /\ ret = NoResult.value
    /\ result = NoResult
    /\ log = NoLog
    /\ hist = NoHist
    /\ ex = NoEx
    /\ output = NoOutput
    /\ simple = NoSimple
    /\ HelpersIdle

\* extract_properties up to the card loop: _find_articles and the early return
ExtractStart ==
    /\ pc = "ex_idle"
    /\ \E cands \in LoopPages :
          LET articles == FindArticles(cands) IN
          IF ~articles.some \/ articles.v = <<>>
          THEN /\ pc' = "ex_done"
               /\ ex' = NoEx
          ELSE /\ pc' = "ex_loop"
               /\ ex' = [NoEx EXCEPT !.n = Len(articles.v)]
    /\ UNCHANGED <<output, helpers, simple, comuna, max_pages, property_type, driver, browser, context, page,
                   seen_urls, all_properties, page_num, current_page, ret, result, log,
                   hist>>

\* the ghost phase after a pass
NextPhase(phase, emitted, dropped) ==
    IF emitted THEN (IF phase = 0 THEN 1 ELSE IF phase = 2 THEN 3 ELSE phase)
    ELSE IF dropped /\ phase = 1 THEN 2
    ELSE phase

\* the card is dropped at the per-card boundary: its markup or its list of links
\* could not be fetched
DroppedByFault(card) ==
    \/ ~card.html.ok
    \/ ~IsProject(card.html.syms) /\ ~IsMultiUnit(card.html.syms) /\ ~card.links.ok

\* one pass of the card loop, on the card the element handle resolves to
ExtractCard ==
    /\ pc = "ex_loop"
    /\ ex.i < ex.n
    /\ \E card \in LoopCards :
          LET st0 == [seen |-> seen_urls, properties |-> ex.properties,
                      total_analyzed |-> ex.total_analyzed,
                      skipped_proyecto |-> ex.skipped_proyecto,
                      skipped_unidades |-> ex.skipped_unidades,
                      added |-> ex.added, raised |-> FALSE, dup_hits |-> 0,
                      origins |-> <<>>]
              st == ProcessCard(card, st0)
          IN /\ seen_urls' = st.seen
             /\ ex' = [n |-> ex.n, i |-> ex.i + 1, properties |-> st.properties,
                       total_analyzed |-> st.total_analyzed,
                       skipped_proyecto |-> st.skipped_proyecto,
                       skipped_unidades |-> st.skipped_unidades,
                       added |-> st.added, card |-> card, before |-> ex.properties,
                       seen_before |-> seen_urls,
                       skipped_urls |->
                          IF card.html.ok /\ card.links.ok /\ st.properties = ex.properties
                             /\ ( st.skipped_proyecto > ex.skipped_proyecto
                                  \/ st.skipped_unidades > ex.skipped_unidades )
                          THEN ex.skipped_urls \cup
                               {BuildFullUrl(card.links.items[k].text) :
                                  k \in {x \in 1..Len(card.links.items) :
                                           /\ card.links.items[x].kind = "text"
                                           /\ card.links.items[x].text # <<>>}}
                          ELSE ex.skipped_urls,
                       phase |-> NextPhase(ex.phase, st.added > ex.added,
                                           DroppedByFault(card))]
             /\ pc' = IF st.raised THEN "ex_raised" ELSE "ex_loop"
    /\ UNCHANGED <<output, helpers, simple, comuna, max_pages, property_type, driver, browser, context, page,
                   all_properties, page_num, current_page, ret, result, log, hist>>

\* the end of the card loop: return properties, which the caller adds to its
\* list
ExtractReturn ==
    /\ pc = "ex_loop"
    /\ ex.i = ex.n
    /\ pc' = "ex_done"
    /\ all_properties' = Extend(all_properties, ex.properties)
    /\ UNCHANGED <<output, helpers, simple, comuna, max_pages, property_type, driver, browser, context, page,
                   seen_urls, page_num, current_page, ret, result, log,
                   hist, ex>>

\* the caller comes back with the next page
ExtractAgain ==
    /\ pc = "ex_done"
    /\ pc' = "ex_idle"
    /\ ex' = NoEx
    /\ UNCHANGED <<output, helpers, simple, comuna, max_pages, property_type, driver, browser, context, page,
                   seen_urls, all_properties, page_num, current_page, ret, result, log,
                   hist>>

NextExtract ==
    \/ ExtractStart
    \/ ExtractCard
    \/ ExtractReturn
    \/ ExtractAgain

SpecExtract == InitExtract /\ [][NextExtract]_vars

(***************************************************************************)
(* The helpers that are also run on their own leave the orchestrator's     *)
(* state as it is.                                                         *)
(***************************************************************************)
program == <<comuna, max_pages, property_type, driver, browser, context, page, seen_urls,
             all_properties, page_num, current_page, ret, result, log, hist, ex, output,
             simple>>

ProgramIdle ==
    /\ comuna = <<" ", "ñuñoa">>
    /\ max_pages = 1
    /\ property_type = "departamento"
    /\ driver = "none"
    /\ browser = "none"
    /\ context = "none"
    /\ page = "none"
    /\ seen_urls = {}
    /\ all_properties = <<>>
    /\ page_num = 0
    /\ current_page = 0
    /\ ret = NoResult.value
    /\ result = NoResult
    /\ log = NoLog
    /\ hist = NoHist
    /\ ex = NoEx
    /\ output = NoOutput
    /\ simple = NoSimple

(***************************************************************************)
(* browser.py: go_to_next_page, one selector of next_button at a time.     *)
(***************************************************************************)
NextButtonSelectors == 8

Answers ==
    {Answer(v, d, s, c, w) :
        v \in {"raises", "no", "yes"}, d \in {"raises", "yes", "no"},
        s \in {"ok", "raises"}, c \in {"ok", "raises_before", "raises_after"},
        w \in {"ok", "raises"}}

\* a plausible slip: the disabled predicate is evaluated and not acted on
ShouldClick_Always(is_disabled) == TRUE

\* if not is_disabled
ShouldClick(is_disabled) == is_disabled = "no"

\* the body of the try reaches next_button.scroll_into_view_if_needed(), and
\* then next_button.click()
ReachesClick(a) ==
    /\ a.visible = "yes"
    /\ a.is_disabled # "raises"
    /\ ShouldClick(a.is_disabled)
    /\ a.scroll = "ok"

\* a plausible slip: a disabled control ends the search
PassReturns_StopAtDisabled(a) ==
    IF ReachesClick(a) /\ a.click = "ok" /\ a.wait = "ok" THEN Some(TRUE)
    ELSE IF a.visible = "yes" /\ a.is_disabled = "yes" THEN Some(FALSE)
    ELSE None

\* what one pass of the loop returns: True after the click and the wait, or
\* nothing, and the loop goes on
PassReturns(a) ==
    IF ReachesClick(a) /\ a.click = "ok" /\ a.wait = "ok" THEN Some(TRUE) ELSE None

InitNext ==
    /\ pc = "nx_loop"
    /\ ProgramIdle
    /\ HelpersIdle

\* one pass of the loop over the selectors; an exception goes on to the next one
NextTry ==
    /\ pc = "nx_loop"
    /\ nx.i < NextButtonSelectors
    /\ \E a \in Answers :
          /\ nx' = [i |-> nx.i + 1,
                    returned |-> PassReturns(a),
                    clicks |-> IF ReachesClick(a) /\ a.click # "raises_before"
                               THEN nx.clicks + 1 ELSE nx.clicks,
                    before |-> nx.clicks,
                    scrolls |-> IF a.visible = "yes" /\ a.is_disabled # "raises"
                                   /\ ShouldClick(a.is_disabled)
                                THEN nx.scrolls + 1 ELSE nx.scrolls,
                    scrolls_before |-> nx.scrolls,
                    saw_disabled |-> nx.saw_disabled
                                     \/ (a.visible = "yes" /\ a.is_disabled = "yes"),
                    saw_enabled |-> nx.saw_enabled
                                    \/ (a.visible = "yes" /\ a.is_disabled = "no"),
                    last |-> a]
          /\ pc' = IF PassReturns(a).some THEN "nx_done" ELSE "nx_loop"
    /\ UNCHANGED <<program, fa, sc, tx, cp>>

\* the selectors are used up: return False
NextExhausted ==
    /\ pc = "nx_loop"
    /\ nx.i = NextButtonSelectors
    /\ nx' = [nx EXCEPT !.returned = Some(FALSE)]
    /\ pc' = "nx_done"
    /\ UNCHANGED <<program, fa, sc, tx, cp>>

NextNext ==
    \/ NextTry
    \/ NextExhausted

SpecNext == InitNext /\ [][NextNext]_vars

(***************************************************************************)
(* extractors.py: _find_articles, one article candidate at a time.  The    *)
(* element handles a candidate matches carry the candidate's number.       *)
(***************************************************************************)
ArticleCandidates == 4

Handles(i, n) == [k \in 1..n |-> <<i, k>>]

LocateOutcomes(i) == {CandFault} \cup {Cand(Handles(i, n)) : n \in 0..MaxFound}

InitLocate ==
    /\ pc = "fa_loop"
    /\ ProgramIdle
    /\ HelpersIdle

\* a plausible slip: no except clause, so that a candidate that raises ends
\* the search
LocateTry_FaultStops ==
    /\ pc = "fa_loop"
    /\ fa.i < ArticleCandidates
    /\ \E cand \in LocateOutcomes(fa.i + 1) :
          /\ fa' = [i |-> fa.i + 1, outcomes |-> Append(fa.outcomes, cand),
                    articles |-> IF Accepts(cand) THEN Some(cand.found) ELSE None]
          /\ pc' = IF ~cand.ok THEN "fa_raised"
                   ELSE IF Accepts(cand) THEN "fa_done" ELSE "fa_loop"
    /\ UNCHANGED <<program, sc, nx, tx, cp>>

\* one pass of the loop over the candidates: a candidate that raises is passed
\* over (except Exception: continue)
LocateTry ==
    /\ pc = "fa_loop"
    /\ fa.i < ArticleCandidates
    /\ \E cand \in LocateOutcomes(fa.i + 1) :
          /\ fa' = [i |-> fa.i + 1, outcomes |-> Append(fa.outcomes, cand),
                    articles |-> IF Accepts(cand) THEN Some(cand.found) ELSE None]
          /\ pc' = IF Accepts(cand) THEN "fa_done" ELSE "fa_loop"
    /\ UNCHANGED <<program, sc, nx, tx, cp>>

\* the candidates are used up: return None
LocateNone ==
    /\ pc = "fa_loop"
    /\ fa.i = ArticleCandidates
    /\ pc' = "fa_done"
    /\ UNCHANGED <<program, helpers>>

NextLocate ==
    \/ LocateTry
    \/ LocateNone

SpecLocate == InitLocate /\ [][NextLocate]_vars

(***************************************************************************)
(* browser.py: scroll_to_bottom, one pass of its loop at a time.  The page *)
(* answers each measurement with any height; any call on the page may      *)
(* raise, and then the exception leaves scroll_to_bottom.                  *)
(***************************************************************************)
MaxScrollAttempts == 10

Heights == {100, 250, 300}

\* a plausible slip: a page that got shorter counts as settled
HeightSettled_NotGrown(new_height, last_height) == new_height <= last_height

\* if new_height == last_height
HeightSettled(new_height, last_height) == new_height = last_height

\* a plausible slip: the ceiling off by one
WithinCeiling_Inclusive(scroll_attempts) == scroll_attempts <= MaxScrollAttempts

\* while scroll_attempts < max_attempts
WithinCeiling(scroll_attempts) == scroll_attempts < MaxScrollAttempts

InitScroll ==
    /\ pc = "sc_start"
    /\ ProgramIdle
    /\ HelpersIdle

\* last_height = page.evaluate("document.body.scrollHeight"); scroll_attempts = 0
ScrollMeasure ==
    /\ pc = "sc_start"
    /\ \E h \in Heights :
          sc' = [sc EXCEPT !.last_height = h, !.measured = <<h>>]
    /\ pc' = IF WithinCeiling(0) THEN "sc_loop" ELSE "sc_top"
    /\ UNCHANGED <<program, fa, nx, tx, cp>>

\* one pass of the while loop: scroll to the bottom, measure again, compare
ScrollPass ==
    /\ pc = "sc_loop"
    /\ \E new_height \in Heights :
          IF HeightSettled(new_height, sc.last_height)
          THEN /\ sc' = [sc EXCEPT !.measured = Append(@, new_height),
                                   !.commands = Append(@, "bottom")]
               /\ pc' = "sc_top"
          ELSE /\ sc' = [sc EXCEPT !.last_height = new_height,
                                   !.scroll_attempts = @ + 1,
                                   !.measured = Append(@, new_height),
                                   !.commands = Append(@, "bottom")]
               /\ pc' = IF WithinCeiling(sc.scroll_attempts + 1)
                        THEN "sc_loop" ELSE "sc_top"
    /\ UNCHANGED <<program, fa, nx, tx, cp>>

\* a plausible slip: the scroll back to the top left out
ScrollTop_Skipped ==
    /\ pc = "sc_top"
    /\ pc' = "sc_done"
    /\ UNCHANGED <<program, helpers>>

\* page.evaluate("window.scrollTo(0, 0)")
ScrollTop ==
    /\ pc = "sc_top"
    /\ sc' = [sc EXCEPT !.commands = Append(@, "top")]
    /\ pc' = "sc_done"
    /\ UNCHANGED <<program, fa, nx, tx, cp>>

\* a call on the page raises: the first measurement, the scroll of a pass (the
\* command was sent or not), the measurement of a pass, the scroll to the top
ScrollRaises ==
    /\ pc \in {"sc_start", "sc_loop", "sc_top"}
    /\ \E sent \in BOOLEAN :
          sc' = IF sent /\ pc = "sc_loop"
                THEN [sc EXCEPT !.commands = Append(@, "bottom")]
                ELSE sc
    /\ pc' = "sc_raised"
    /\ UNCHANGED <<program, fa, nx, tx, cp>>

NextScroll ==
    \/ ScrollMeasure
    \/ ScrollPass
    \/ ScrollTop
    \/ ScrollRaises

SpecScroll == InitScroll /\ [][NextScroll]_vars

\* scroll_to_bottom runs on: a call on the page returns or raises, and the
\* pauses end
FairScroll == SpecScroll /\ WF_vars(NextScroll)

(***************************************************************************)
(* extractors.py: _extract_attributes on its own, over cards with one item *)
(* of any short text, and with one or two items of longer texts.           *)
(***************************************************************************)
AttrAlphabet == {"2", "5", ".", " ", "m", "M", "²", "dormitorio", "Baño", "x"}

ShortTexts == UNION {[1..n -> AttrAlphabet] : n \in 0..MaxTextLen}

AreaText == <<"8", "5", ".", "5", " ", "m", "²">>

SampleTexts ==
    {DormitoriosText, BanosText, AreaText, <<"dormitorio", "s">>,
     <<"8", "5", ".", "5", "M", "2">>,
     <<"2", " ", "dormitorio", "s", " ", "8", "0", " ", "m", "²">>}

AttrInputs ==
    {AttrsFault}
    \cup {Attrs(<<ItemText(t)>>) : t \in ShortTexts \cup SampleTexts}
    \cup {Attrs(<<a, b>>) : a, b \in {ItemText(t) : t \in SampleTexts} \cup {ItemFault}}

InitAttrs ==
    /\ pc = "tx_idle"
    /\ ProgramIdle
    /\ HelpersIdle

\* the card in hand: its attribute items are located
AttrsCard ==
    /\ pc = "tx_idle"
    /\ \E attrs \in AttrInputs \cup {Attrs(<<>>)} :
          tx' = [attrs |-> attrs, attributes |-> NoAttributes]
    /\ pc' = "tx_call"
    /\ UNCHANGED <<program, fa, sc, nx, cp>>

\* _extract_attributes returns its dictionary
AttrsReturn ==
    /\ pc = "tx_call"
    /\ tx' = [tx EXCEPT !.attributes = ExtractAttributes(Card(Html({"div"}), Links(<<>>), tx.attrs, LocHidden))]
    /\ pc' = "tx_done"
    /\ UNCHANGED <<program, fa, sc, nx, cp>>

NextAttrs ==
    \/ AttrsCard
    \/ AttrsReturn

SpecAttrs == InitAttrs /\ [][NextAttrs]_vars

(***************************************************************************)
(* browser.py: close_popups_and_modals, one selector of popup_closers at a *)
(* time.  is_visible raises or gives a value; click raises before the      *)
(* click is dispatched, after it, or not at all.                           *)
(***************************************************************************)
PopupSelectors == 9

\* a plausible slip: the first popup closed ends the loop
GoesOn_UntilClosed(visible, click) == ~(visible = "yes" /\ click = "ok")

\* neither the click nor the except clause leaves the loop
GoesOn(visible, click) == TRUE

InitPopups ==
    /\ pc = "cp_loop"
    /\ ProgramIdle
    /\ HelpersIdle

\* one pass of the loop over the selectors
PopupTry ==
    /\ pc = "cp_loop"
    /\ cp.i < PopupSelectors
    /\ \E visible \in {"raises", "no", "yes"}, click \in {"ok", "raises_before", "raises_after"} :
          /\ cp' = [i |-> cp.i + 1,
                    tried |-> Append(cp.tried, cp.i + 1),
                    shown |-> IF visible = "yes" THEN cp.shown \cup {cp.i + 1} ELSE cp.shown,
                    clicked |-> IF visible = "yes" /\ click # "raises_before"
                                THEN Append(cp.clicked, cp.i + 1) ELSE cp.clicked,
                    last |-> <<visible, click>>]
          /\ pc' = IF GoesOn(visible, click) THEN "cp_loop" ELSE "cp_done"
    /\ UNCHANGED <<program, fa, sc, nx, tx>>

\* the selectors are used up: the function returns
PopupsReturn ==
    /\ pc = "cp_loop"
    /\ cp.i = PopupSelectors
    /\ pc' = "cp_done"
    /\ UNCHANGED <<program, helpers>>

NextPopups ==
    \/ PopupTry
    \/ PopupsReturn

SpecPopups == InitPopups /\ [][NextPopups]_vars

(***************************************************************************)
(* scraper_simple.py beside the package: scrape_portal_inmobiliario and    *)
(* PortalInmobiliarioScraper.scrape called with the same budget and shown  *)
(* the same pages, the advance giving both the same answer.  The           *)
(* stabilizer and the dismisser are left out: no record depends on them.   *)
(***************************************************************************)
\* extract_property_info: seen_urls is a local that starts empty, the first
\* selector that finds more than 5 elements gives the articles, and the loop
\* over them does what extract_properties does with its helpers written in
\* place
ExtractPropertyInfo(cands) ==
    LET ks == {k \in 1..Len(cands) :
                 cands[k].ok /\ cands[k].found # <<>> /\ Len(cands[k].found) > 5}
    IN IF ks = {} THEN LoopStart({})
       ELSE CardLoop(cands[CHOOSE k \in ks : \A j \in ks : k <= j].found, 1, LoopStart({}))

\* pages of one kind of card (with or without attributes and a location), as
\* many as the threshold or one more, at the first candidate or at the second,
\* and a page on which no candidate matches
BothPages ==
    LET cards(n, u, d) ==
           [k \in 1..n |->
              IF d THEN Card(Html({"div"}), Links(<<HrefText(u)>>),
                             Attrs(<<ItemText(DormitoriosText)>>), LocVisible(LocationText))
              ELSE PlainCard(<<HrefText(u)>>)]
    IN {<<Cand(cards(n, u, d)), Cand(<<>>), Cand(<<>>), Cand(<<>>)>> :
          n \in MinArticlesThreshold..(MinArticlesThreshold + 1), u \in {RelU1, RelU2},
          d \in BOOLEAN}
       \cup {<<Cand(cards(2, RelU2, FALSE)), Cand(cards(MinArticlesThreshold + 1, RelU1, TRUE)),
               Cand(<<>>), Cand(<<>>)>>,
             <<Cand(<<>>), Cand(<<>>), Cand(<<>>), Cand(<<>>)>>}

InitBoth ==
    /\ pc = "both_idle"
    /\ ProgramIdle
    /\ HelpersIdle

\* both are called with the same budget and reach the first pass of their loops
BothCall ==
    /\ pc = "both_idle"
    /\ \E budget \in 1..MaxPages : max_pages' = budget
    /\ page_num' = 1
    /\ simple' = [simple EXCEPT !.page_num = 1, !.running = TRUE]
    /\ pc' = "both_loop"
    /\ UNCHANGED <<helpers, comuna, property_type, driver, browser, context, page, seen_urls,
                   all_properties, current_page, ret, result, log, hist, ex, output>>

\* one pass of each loop on the same page: the page's records are added to the
\* list, and when the budget allows the advance is called; the loop goes on
\* when it returned true
BothPass ==
    /\ pc = "both_loop"
    /\ \E cands \in BothPages, advanced \in BOOLEAN :
          LET r == ExtractProperties(cands, seen_urls)
              q == ExtractPropertyInfo(cands)
              goes_on == page_num < max_pages /\ advanced
              simple_goes_on == simple.page_num < max_pages /\ advanced
          IN /\ seen_urls' = r.seen
             /\ all_properties' = Extend(all_properties, r.properties)
             /\ current_page' = page_num
             /\ page_num' = IF goes_on THEN page_num + 1 ELSE page_num
             /\ pc' = IF goes_on THEN "both_loop" ELSE "both_done"
             /\ simple' = IF simple.running
                          THEN [all_properties |-> Extend(simple.all_properties, q.properties),
                                current_page |-> simple.page_num,
                                page_num |-> IF simple_goes_on THEN simple.page_num + 1
                                             ELSE simple.page_num,
                                running |-> simple_goes_on]
                          ELSE simple
    /\ UNCHANGED <<helpers, comuna, max_pages, property_type, driver, browser, context, page,
                   ret, result, log, hist, ex, output>>

NextBoth ==
    \/ BothCall
    \/ BothPass

SpecBoth == InitBoth /\ [][NextBoth]_vars

(***************************************************************************)
(* The claims.                                                             *)
(***************************************************************************)
DistinctUrls(records) ==
    \A i, j \in 1..Len(records) : i # j => records[i].url # records[j].url

\* C1: across the pages of one run no two records share a url, neither in the
\* list being accumulated nor in the list scrape returns.
C1_NoDuplicateUrls ==
    /\ DistinctUrls(all_properties)
    /\ result.kind = "returned" => DistinctUrls(result.value.records)

\* a run of two pages or more returned two records or more, after a card's link
\* resolved to a URL that an earlier card had already taken
C1_Witness ==
    /\ pc = "returned"
    /\ hist.fault = "none"
    /\ hist.pages_extracted >= 2
    /\ hist.dup_hits > 0
    /\ Len(result.value.records) >= 2

\* the card of the last pass of the card loop, once a pass was made
Passed == ex.i > 0
LabelForms == {"PROYECTO", "proyecto", "Proyecto"}
UnitsForms == {"unidades disponibles", "Unidades Disponibles", "UNIDADES DISPONIBLES"}
NotEmitted == ex.properties = ex.before /\ seen_urls = ex.seen_before

\* C2 as stated: a card whose markup contains the pill class is never emitted,
\* whatever else the markup contains.
C2_Original ==
    (Passed /\ ex.card.html.ok /\ PillClass \in ex.card.html.syms) => NotEmitted

\* C2 as amended: a card whose markup contains the pill class and the label
\* PROYECTO in any letter case is never emitted, whatever its other fields.
C2_PillWithLabelExcluded ==
    (/\ Passed
     /\ ex.card.html.ok
     /\ PillClass \in ex.card.html.syms
     /\ ex.card.html.syms \cap LabelForms # {}) => NotEmitted

\* a card with the pill class and the label in lower case, whose first link was
\* new, passed the loop
C2_Witness ==
    /\ pc = "ex_loop"
    /\ Passed
    /\ ex.card.html.syms = {PillClass, "proyecto"}
    /\ ex.card.links.ok
    /\ AbsU1 \notin ex.seen_before

\* C3: a card whose markup contains the available-units class, or the phrase
\* "unidades disponibles" in any letter case, is never emitted.
C3_MultiUnitExcluded ==
    (/\ Passed
     /\ ex.card.html.ok
     /\ \/ AvailableUnits \in ex.card.html.syms
        \/ ex.card.html.syms \cap UnitsForms # {}) => NotEmitted

\* a card with the phrase in mixed case, whose first link was new, passed the loop
C3_Witness ==
    /\ pc = "ex_loop"
    /\ Passed
    /\ ex.card.html.syms = {"Unidades Disponibles"}
    /\ ex.card.links.ok
    /\ AbsU1 \notin ex.seen_before

Min(a, b) == IF a <= b THEN a ELSE b
Started == pc \notin {"call", "rejected"}
Completed == pc \in {"cleanup", "returned", "raised"} /\ hist.fault = "none"

\* C4: with budget N, a run without a fault extracts min(N, k) pages, k the page
\* after which advance first returned false; never more than N pages are
\* extracted and advance is invoked at most N - 1 times.
C4_PageBudget ==
    Started =>
        /\ hist.pages_extracted <= max_pages
        /\ hist.advance_calls <= max_pages - 1
        /\ Completed =>
              hist.pages_extracted =
                  IF hist.advance_false_at # 0
                  THEN Min(max_pages, hist.advance_false_at)
                  ELSE max_pages

\* budget 3, advance always succeeding: 3 pages extracted, advance invoked twice
C4_Witness ==
    /\ pc = "returned"
    /\ hist.fault = "none"
    /\ max_pages = 3
    /\ hist.advance_false_at = 0
    /\ hist.pages_extracted = 3
    /\ hist.advance_calls = 2

\* the termination reason the returned value carries
TerminationReason(v) ==
    IF "terminationReason" \in DOMAIN v THEN v.terminationReason ELSE "absent"

Blank(c) == \A i \in 1..Len(c) : c[i] = " "
InvalidInput ==
    \/ property_type \notin {"departamento", "casa"}
    \/ max_pages < 1
    \/ Blank(comuna)

\* C6: a listing category other than departamento or casa, a budget below 1 or
\* an empty or blank comuna is rejected with an error, and no driver is started,
\* no browser launched and no navigation issued.
C6_RejectedBeforeSession ==
    InvalidInput =>
        /\ pc \in {"call", "rejected"}
        /\ pc = "rejected" => result.kind = "raised"
        /\ driver = "none" /\ browser = "none" /\ context = "none" /\ page = "none"
        /\ hist.launches = 0 /\ hist.navigations = 0

\* a call with a good comuna and budget and an unknown category was rejected
C6_Witness ==
    /\ pc = "rejected"
    /\ property_type = "parcela"
    /\ max_pages >= 1
    /\ ~Blank(comuna)

\* C7: once the validation has passed, no fault propagates out of scrape.
C7_NoFaultPropagates == result.kind = "raised" => pc = "rejected"

\* C8: a run in which a fault reached the except clause returns an empty list,
\* also when records of earlier pages had been accumulated.
C8_FaultGivesEmpty ==
    (pc = "returned" /\ hist.fault # "none") => result.value.records = <<>>

\* the stabilization of a later page raised after records had been accumulated
C8_Witness ==
    /\ pc = "returned"
    /\ hist.fault = "stabilize"
    /\ hist.accumulated > 0
    /\ hist.pages_extracted >= 1
    /\ result.value.records = <<>>

\* C9: when scrape returns, the driver, the browser, the context and the page
\* that were acquired are released.
C9_AllReleased ==
    pc = "returned" =>
        /\ driver # "running"
        /\ browser # "open"
        /\ context # "open"
        /\ page # "open"

IsPrefix(a, b) == Len(a) <= Len(b) /\ SubSeq(b, 1, Len(a)) = a
ItemFaults(card) == \E k \in 1..Len(card.attrs.items) : ~card.attrs.items[k].ok
HasFault(card) ==
    \/ ~card.html.ok
    \/ ~card.links.ok
    \/ ~card.attrs.ok
    \/ ItemFaults(card)
    \/ card.loc.kind \in {"fault", "textfault"}

\* C10 as stated: a fault while fetching a card's markup, locating its links,
\* reading its attributes or its location drops that card, and
\* extract_properties does not raise.
C10_Original ==
    (Passed /\ HasFault(ex.card)) => (ex.properties = ex.before /\ pc # "ex_raised")

ExcludedMarkup(syms) ==
    \/ PillClass \in syms /\ syms \cap LabelForms # {}
    \/ AvailableUnits \in syms
    \/ syms \cap UnitsForms # {}

\* the URLs of the card's links that are not in seen
NewUrls(card, seen) ==
    {BuildFullUrl(card.links.items[k].text) :
        k \in {x \in 1..Len(card.links.items) :
                 /\ card.links.items[x].kind = "text"
                 /\ card.links.items[x].text # <<>>}} \ seen

Qualifies(card, seen) ==
    /\ card.html.ok
    /\ ~ExcludedMarkup(card.html.syms)
    /\ card.links.ok
    /\ NewUrls(card, seen) # {}

LastRecord == ex.properties[Len(ex.properties)]

\* C10 as amended: extract_properties never raises and keeps the records it has
\* emitted; a card whose markup or list of links cannot be fetched is dropped
\* and leaves the dedup index alone; every card that is not excluded and has a
\* link to a URL not yet seen is emitted, whatever happened to the cards before
\* it, and a fault while reading its attributes or its location does not drop
\* it: it is emitted with the fields read before the fault, the others unset.
C10_FaultIsolated ==
    Passed =>
        /\ pc # "ex_raised"
        /\ IsPrefix(ex.before, ex.properties)
        /\ (~ex.card.html.ok \/ ~ex.card.links.ok) => NotEmitted
        /\ Qualifies(ex.card, ex.seen_before) =>
              /\ Len(ex.properties) = Len(ex.before) + 1
              /\ LastRecord.url \in NewUrls(ex.card, ex.seen_before)
              /\ ~ex.card.attrs.ok =>
                    /\ LastRecord.dormitorios = None
                    /\ LastRecord.banos = None
                    /\ LastRecord.superficie = None
              /\ ItemFaults(ex.card) => LastRecord.banos = None
              /\ ex.card.loc.kind # "visible" => LastRecord.ubicacion = None

\* on one page a card was emitted, a later card was dropped by a fault, and a
\* card after that one was emitted, its attributes having raised
C10_Witness ==
    /\ pc = "ex_loop"
    /\ ex.phase = 3
    /\ Len(ex.properties) = Len(ex.before) + 1
    /\ ItemFaults(ex.card)
    /\ LastRecord.dormitorios = Some(<<"3">>)

\* what the hrefs of the inputs resolve to, written out
ResolvedUrl(href) ==
    IF href \in {RelU1, AbsU1} THEN <<"https://www.portalinmobiliario.com", "/", "MLC-1">>
    ELSE IF href \in {RelU2, BareU2}
         THEN <<"https://www.portalinmobiliario.com", "/", "MLC-2">>
    ELSE href

\* the card has no link that gives a URL not in seen: it has no link, or each
\* link has no href, an empty href, or an href that resolves to a URL in seen
NoUsableLink(card, seen) ==
    /\ card.links.ok
    /\ \A k \in 1..Len(card.links.items) :
          LET link == card.links.items[k] IN
          \/ link.kind = "absent"
          \/ link.kind = "text" /\ link.text = <<>>
          \/ link.kind = "text" /\ link.text # <<>> /\ ResolvedUrl(link.text) \in seen

\* C11: every record of the page's list has a non-empty url, and a pass over a
\* card that has no listing link, only links whose href is absent or empty, or
\* only links that resolve to URLs already in seen_urls emits no record and
\* leaves seen_urls alone.
C11_UrlNeverEmpty ==
    /\ \A k \in 1..Len(ex.properties) : ex.properties[k].url # <<>>
    /\ (Passed /\ NoUsableLink(ex.card, ex.seen_before)) => NotEmitted

\* a card whose two links both resolve to URLs already in seen_urls was passed
\* without a record, on a page that has emitted one
C11_Witness ==
    /\ Passed
    /\ NotEmitted
    /\ Len(ex.card.links.items) = 2
    /\ ex.card.html.syms = {}
    /\ \A k \in 1..2 : ex.card.links.items[k].text # <<>>
    /\ ex.seen_before = {ResolvedUrl(RelU1), ResolvedUrl(RelU2)}
    /\ ex.properties # <<>>

\* C12: a next-control whose disabled predicate is true is not clicked; and
\* when the predicate is true of every visible control the selectors locate,
\* go_to_next_page returns False and no click was dispatched.
C12_DisabledNotClicked ==
    /\ (nx.i > 0 /\ nx.last.visible = "yes" /\ nx.last.is_disabled = "yes") =>
          (nx.clicks = nx.before /\ nx.returned # Some(TRUE))
    /\ (pc = "nx_done" /\ nx.saw_disabled /\ ~nx.saw_enabled) =>
          (nx.returned = Some(FALSE) /\ nx.clicks = 0)

\* the call returned; a selector located a visible control whose predicate was
\* true, and the last selector did too
C12_Witness ==
    /\ pc = "nx_done"
    /\ nx.saw_disabled
    /\ ~nx.saw_enabled
    /\ nx.last.visible = "yes"
    /\ nx.last.is_disabled = "yes"
    /\ nx.returned = Some(FALSE)

\* the candidates evaluated so far that matched at least five elements
Sufficient == {k \in 1..Len(fa.outcomes) : fa.outcomes[k].ok /\ Len(fa.outcomes[k].found) >= 5}

\* C13: _find_articles returns the match set of exactly one candidate, the
\* first in order that matched at least 5 elements: every element returned is
\* that candidate's, the candidates before it matched fewer or failed, and no
\* candidate after it is evaluated; when no candidate matched 5, all four were
\* evaluated and nothing is returned.
C13_FirstSufficientCandidate ==
    /\ pc = "fa_loop" => Sufficient = {}
    /\ pc = "fa_done" =>
          /\ fa.articles = FindArticles(fa.outcomes)
          /\ IF Sufficient = {}
             THEN fa.articles = None /\ fa.i = 4
             ELSE /\ Sufficient = {fa.i}
                  /\ Len(fa.outcomes) = fa.i
                  /\ fa.articles = Some(fa.outcomes[fa.i].found)
                  /\ \A k \in 1..Len(fa.articles.v) : fa.articles.v[k] = <<fa.i, k>>

\* candidates A, B, C, D: A matched four elements, B matched five, the list
\* returned is B's and C was not evaluated
C13_Witness ==
    /\ pc = "fa_done"
    /\ fa.i = 2
    /\ Len(fa.outcomes[1].found) = 4
    /\ fa.articles = Some(<<<<2, 1>>, <<2, 2>>, <<2, 3>>, <<2, 4>>, <<2, 5>>>>)

\* the scroll-to-bottom commands sent so far
Bottoms == Cardinality({k \in 1..Len(sc.commands) : sc.commands[k] = "bottom"})

\* the re-measurements that equal the measurement just before them: j stands for
\* the j-th re-measurement
Plateaus == {j \in 1..(Len(sc.measured) - 1) : sc.measured[j + 1] = sc.measured[j]}

\* C14: scroll_to_bottom stops at the first re-measurement that equals the
\* measurement just before it: the loop is never entered again after one, no
\* measurement follows it, and the number of scroll-to-bottom commands is its
\* position (heights 100, 250, 250: two commands, not ten); the loop ends
\* without one only after ten commands.
C14_StopsAtFirstPlateau ==
    /\ pc = "sc_loop" => Plateaus = {}
    /\ pc \in {"sc_top", "sc_done"} =>
          /\ Len(sc.measured) = Bottoms + 1
          /\ Plateaus # {} => Plateaus = {Bottoms}
          /\ Plateaus = {} => Bottoms = 10
          /\ sc.measured = <<100, 250, 250>> => Bottoms = 2

\* the heights measured were 100, 250, 250 and scroll_to_bottom has returned
C14_Witness ==
    /\ pc = "sc_done"
    /\ sc.measured = <<100, 250, 250>>
    /\ Bottoms = 2

\* the texts of the card's items, when there is exactly one item and it was read
OneItem == tx.attrs.ok /\ Len(tx.attrs.items) = 1 /\ tx.attrs.items[1].ok
HasDigit(t) == \E k \in 1..Len(t) : t[k] \in {"0", "1", "2", "3", "4", "5", "6", "7", "8", "9"}
HasKeyword(t, forms) == \E k \in 1..Len(t) : t[k] \in forms
DigitRunOf(v, t) ==
    /\ v # <<>>
    /\ \A k \in 1..Len(v) : v[k] \in {"0", "1", "2", "3", "4", "5", "6", "7", "8", "9"}
    /\ \E i \in 1..Len(t) : i + Len(v) - 1 <= Len(t) /\ SubSeq(t, i, i + Len(v) - 1) = v

\* a field of the dictionary is set only from an item that has its keyword and
\* a numeric run, and to that run
SetFrom(field, forms) ==
    field.some =>
        \E k \in 1..Len(tx.attrs.items) :
            /\ tx.attrs.items[k].ok
            /\ HasKeyword(tx.attrs.items[k].text, forms)
            /\ DigitRunOf(field.v, tx.attrs.items[k].text)

DigitText(v) == v \in Seq({"0", "1", "2", "3", "4", "5", "6", "7", "8", "9"})

\* C16: bedrooms and bathrooms of every emitted record are unset or an integer
\* that is at least 0: an integer value, not the matched digit text.
C16_CountsAreIntegers ==
    \A k \in 1..Len(ex.properties) :
        /\ ex.properties[k].dormitorios.some => ~DigitText(ex.properties[k].dormitorios.v)
        /\ ex.properties[k].banos.some => ~DigitText(ex.properties[k].banos.v)

\* the card's links that have an href, as the URLs they stand for
LinkedUrls(card) ==
    {ResolvedUrl(card.links.items[k].text) :
        k \in {x \in 1..Len(card.links.items) :
                 card.links.items[x].kind = "text" /\ card.links.items[x].text # <<>>}}

\* C17: the url of an emitted record is what one of the card's hrefs resolves
\* to: the origin followed by the path for a relative href, the origin, one
\* slash and the href for an href without a leading slash, the href itself
\* when it is absolute; the record's url was not in seen_urls and is added to
\* it, so seen_urls holds resolved URLs only, and a card whose hrefs, relative
\* or absolute, all resolve to URLs in seen_urls is not emitted.
C17_UrlsResolved ==
    /\ \A u \in seen_urls : Head(u) = "https://www.portalinmobiliario.com" /\ u[2] = "/"
    /\ (Passed /\ ex.properties # ex.before) =>
          /\ LastRecord.url \in LinkedUrls(ex.card) \ ex.seen_before
          /\ seen_urls = ex.seen_before \cup {LastRecord.url}
    /\ (Passed /\ ex.card.links.ok /\ LinkedUrls(ex.card) \subseteq ex.seen_before) =>
          NotEmitted

\* the page's list has two records, the last with the URL of listing 2, and the
\* card with the relative href to listing 1 was then passed without a record
C17_Witness ==
    /\ Passed
    /\ NotEmitted
    /\ ex.card = PlainCard(<<HrefText(<<"/", "MLC-1">>)>>)
    /\ ex.properties # <<>>
    /\ LastRecord.url = <<"https://www.portalinmobiliario.com", "/", "MLC-2">>
    /\ LastRecord.dormitorios = None
    /\ Len(ex.properties) = 2

\* <<page, position>> a comes before b
Before(a, b) == a[1] < b[1] \/ (a[1] = b[1] /\ a[2] < b[2])

\* C18: the records are in the order they were emitted: a record from an
\* earlier page comes before every record from a later page, and of two
\* records from one page the one whose card comes first on the page comes
\* first; the sequence returned by a run without a fault is that list.
C18_PageThenDomOrder ==
    /\ Len(hist.origin) = Len(all_properties)
    /\ \A i, j \in 1..Len(hist.origin) : i < j => Before(hist.origin[i], hist.origin[j])
    /\ (pc = "returned" /\ hist.fault = "none") => result.value.records = all_properties

\* a run returned two records, the first from page 1 and the second from a
\* later card of page 2
C18_Witness ==
    /\ pc = "returned"
    /\ hist.fault = "none"
    /\ Len(result.value.records) = 2
    /\ hist.origin[1][1] = 1
    /\ hist.origin[2][1] = 2
    /\ hist.origin[2][2] > hist.origin[1][2]

\* C19: when a table was asked for, the table scrape_properties returns has
\* exactly the columns url, dormitorios, banos, superficie, ubicacion, in that
\* order, whatever the run gave, a run with no records included.
C19_FixedColumns ==
    (pc = "delivered" /\ output.kind = "dataframe") =>
        output.columns = <<"url", "dormitorios", "banos", "superficie", "ubicacion">>

\* C20: within one call of go_to_next_page at most one click on a next-control
\* is dispatched, whatever the selectors locate and whichever of the click and
\* the wait for the load fails.
C20_AtMostOneClick == nx.clicks <= 1

\* C21: go_to_next_page returns False only when no selector yielded a control
\* that was clicked: a False return implies that no click was dispatched
\* during the call, so the session is still on the same page.
C21_FalseMeansNoClick ==
    (pc = "nx_done" /\ nx.returned = Some(FALSE)) => nx.clicks = 0

\* C22: a control whose disabled predicate gave true is neither scrolled into
\* view nor clicked, and it does not end the search: the loop goes on to the
\* next selector, and False is returned only when all eight were tried.
C22_DisabledSkipped ==
    /\ (nx.i > 0 /\ nx.last.visible = "yes" /\ nx.last.is_disabled = "yes") =>
          /\ nx.scrolls = nx.scrolls_before
          /\ nx.clicks = nx.before
          /\ pc = "nx_loop" \/ (pc = "nx_done" /\ nx.i = 8)
    /\ nx.returned = Some(FALSE) => nx.i = 8

\* the first selector located a disabled control, and the second selector's
\* control was clicked and the page loaded
C22_Witness ==
    /\ pc = "nx_done"
    /\ nx.i = 2
    /\ nx.saw_disabled
    /\ nx.returned = Some(TRUE)
    /\ nx.clicks = 1

\* C23: scroll_to_bottom always comes to an end, and sends at most 10
\* scroll-to-bottom commands whatever heights the page reports, heights that
\* grow or change at every measurement included.
C23_StabilizerTerminates ==
    /\ [](Bottoms <= 10 /\ sc.scroll_attempts <= 10)
    /\ <>(pc \in {"sc_done", "sc_raised"})

\* the height changed at each of ten re-measurements, and scroll_to_bottom
\* returned after ten scroll-to-bottom commands
C23_Witness ==
    /\ pc = "sc_done"
    /\ Plateaus = {}
    /\ Bottoms = 10
    /\ sc.measured[11] > sc.measured[10]

\* the commands are n scroll-to-bottom commands, then one scroll to the top
BottomsThenTop(commands) ==
    /\ commands # <<>>
    /\ commands[Len(commands)] = "top"
    /\ \A k \in 1..(Len(commands) - 1) : commands[k] = "bottom"

\* C24: when the loop of scroll_to_bottom has ended, by a plateau or at the
\* ceiling, and the call has returned, the commands it sent are the
\* scroll-to-bottom commands followed by exactly one scroll to the top; no
\* scroll to the top is sent before the loop has ended.
C24_TopOnceAtEnd ==
    /\ pc = "sc_done" => BottomsThenTop(sc.commands)
    /\ pc \in {"sc_start", "sc_loop", "sc_top"} =>
          \A k \in 1..Len(sc.commands) : sc.commands[k] = "bottom"

\* scroll_to_bottom returned after a plateau at the third re-measurement
C24_Witness ==
    /\ pc = "sc_done"
    /\ Plateaus = {3}
    /\ Len(sc.commands) = 4
    /\ sc.commands[4] = "top"

\* C25: close_popups_and_modals tries every selector of the list once, in list
\* order, whatever the earlier ones gave: it returns only after the ninth, a
\* click, an element that is not visible and an exception all lead on to the
\* next selector; a selector's element is clicked at most once, and only when
\* it was visible, so a page that shows none gets no click.
C25_EverySelectorOnce ==
    /\ cp.tried = [k \in 1..cp.i |-> k]
    /\ pc = "cp_done" => cp.i = 9
    /\ \A j, k \in 1..Len(cp.clicked) : j < k => cp.clicked[j] < cp.clicked[k]
    /\ \A k \in 1..Len(cp.clicked) : cp.clicked[k] \in cp.shown
    /\ cp.shown = {} => cp.clicked = <<>>
    /\ (cp.i > 0 /\ cp.last = <<"yes", "ok">>) =>
          (cp.clicked # <<>> /\ cp.clicked[Len(cp.clicked)] = cp.i)

\* the function returned after two popups were closed, the second by the last
\* selector, and the click on a visible element between them raised
C25_Witness ==
    /\ pc = "cp_done"
    /\ cp.clicked = <<2, 9>>
    /\ cp.shown = {2, 5, 9}
    /\ cp.last = <<"yes", "ok">>

ViewSteps == {"found", "fallback", "fallback_raised"}
AdvanceSteps == {"advance_true", "advance_false"}
StepsAt(name) == {k \in 1..Len(hist.events) : hist.events[k] = name}

\* C26: in a run, the page is opened first and the popups are closed right
\* after it, once, before the first extraction; every extraction comes right
\* after a stabilization, which comes either after that first closing of
\* popups or after an advance that returned true; the pagination of a page
\* comes after its extraction; between two consecutive extractions there is
\* exactly one advance that returned true; nothing follows an advance that
\* returned false.
C26_StateOrder ==
    LET E == hist.events IN
    /\ hist.trace = "steps"
    /\ \A k \in 1..Len(E) :
          /\ E[k] = "goto" <=> k = 1
          /\ k = 2 => E[k] = "dismiss"
          /\ E[k] = "stabilize" =>
                /\ k > 2
                /\ E[k - 1] = (IF k = 3 THEN "dismiss" ELSE "advance_true")
          /\ E[k] = "extract" => k > 1 /\ E[k - 1] = "stabilize"
          /\ (E[k] = "dismiss" /\ k > 2) => E[k - 1] = "extract"
          /\ E[k] = "advance_true" => (k = Len(E) \/ E[k + 1] = "stabilize")
          /\ E[k] = "advance_false" => k = Len(E)
    /\ \A i \in StepsAt("extract"), j \in StepsAt("extract") :
          (i < j /\ StepsAt("extract") \cap ((i + 1)..(j - 1)) = {})
             => Cardinality(StepsAt("advance_true") \cap (i..j)) = 1
    /\ Cardinality(StepsAt("extract")) = hist.pages_extracted
    /\ hist.pages_extracted <= MaxPages

\* after two pages were extracted the advance returned false and the run
\* ended with its records delivered
C26_Witness ==
    /\ pc = "delivered"
    /\ hist.pages_extracted = 2
    /\ hist.events # <<>>
    /\ hist.events[Len(hist.events)] = "advance_false"
    /\ max_pages = 3

\* C30: whenever the pagination of a page is reached, the popups are closed
\* first, then the pagination is brought into view in one of three ways (a
\* container found, the scroll near the bottom, that scroll raising), and
\* whichever it was, go_to_next_page is called right after it, once: no
\* fault comes out of bringing the pagination into view.
C30_AdvanceAfterAnyView ==
    LET E == hist.events IN
    /\ hist.trace = "steps"
    /\ \A k \in 1..Len(E) :
          /\ E[k] \in ViewSteps =>
                /\ k > 1 /\ E[k - 1] = "dismiss"
                /\ k < Len(E) /\ E[k + 1] \in AdvanceSteps
          /\ E[k] \in AdvanceSteps => k > 1 /\ E[k - 1] \in ViewSteps
    /\ hist.advance_calls =
          Cardinality({k \in 1..Len(E) : E[k] \in ViewSteps})
    /\ hist.advance_calls =
          Cardinality({k \in 3..Len(E) : E[k] = "dismiss"})
    /\ hist.fault # "view"

\* the scroll near the bottom raised on the first page and the advance that
\* followed returned true; on the second page a container was found
C30_Witness ==
    /\ Len(hist.events) >= 13
    /\ hist.events[5] = "dismiss"
    /\ hist.events[6] = "fallback_raised"
    /\ hist.events[7] = "advance_true"
    /\ hist.events[11] = "found"
    /\ hist.events[12] \in AdvanceSteps
    /\ hist.advance_calls = 2

\* C28: when, on a page, every article candidate raised or matched fewer
\* elements than the threshold, processing that page leaves the dedup index
\* and the accumulated records as they were and raises no fault, and the run
\* goes on to the pagination of that page (to the summary when the page is
\* the last one allowed).
C28_NotFoundIsNormal ==
    [][ ( /\ pc = "process"
          /\ hist'.located = hist.located + 1
          /\ \A k \in 1..ArticleCandidates :
                hist'.matches[k] < MinArticlesThreshold )
        => ( /\ seen_urls' = seen_urls
             /\ all_properties' = all_properties
             /\ hist'.fault = hist.fault
             /\ hist'.pages_extracted = hist.pages_extracted + 1
             /\ pc' = IF page_num < max_pages THEN "navigate" ELSE "summary" ) ]_vars

\* after a page that gave records, a page where two candidates raised, one
\* matched nothing and one matched one element fewer than the threshold: the
\* run is at the pagination of that page with the records of the first page
C28_Witness ==
    /\ pc = "navigate"
    /\ hist.located = 2
    /\ hist.matches = <<-1, 0, MinArticlesThreshold - 1, -1>>
    /\ hist.fault = "none"
    /\ Len(all_properties) = 1
    /\ seen_urls # {}

\* the candidates evaluated so far that raised
Faulted == {k \in 1..Len(fa.outcomes) : ~fa.outcomes[k].ok}

\* C29: a candidate whose evaluation raised does not end the search: either
\* the next candidate has been evaluated, or the search is about to go on, or
\* it was the last candidate and nothing is returned; and when a candidate
\* after it matched at least the threshold, the search returned the
\* elements of the first such candidate.
C29_FaultIsFailure ==
    /\ \A k \in Faulted :
          \/ k < Len(fa.outcomes)
          \/ pc = "fa_loop"
          \/ pc = "fa_done" /\ k = ArticleCandidates /\ fa.articles = None
    /\ \A k \in Faulted, j \in 1..Len(fa.outcomes) :
          ( /\ pc = "fa_done"
            /\ k < j
            /\ fa.outcomes[j].ok
            /\ Len(fa.outcomes[j].found) >= MinArticlesThreshold )
          => fa.articles = Some(fa.outcomes[j].found)

\* the first and the third candidate raised, the second matched three
\* elements, and the five elements of the fourth were returned
C29_Witness ==
    /\ pc = "fa_done"
    /\ Faulted = {1, 3}
    /\ Len(fa.outcomes[2].found) = 3
    /\ fa.articles = Some(Handles(4, 5))

\* C27: no step of a run takes a URL out of the dedup index: whatever the step
\* is (a page parsed, with cards skipped or passed over, a pagination that
\* failed, a fault caught at the top, the end of the run), the index after it
\* holds every URL it held before.
C27_IndexOnlyGrows == [][seen_urls \subseteq seen_urls']_vars

\* a run that a fault ended after two pages were parsed and the advance
\* from each returned true, its result delivered (an empty list), with two
\* URLs still in the index
C27_Witness ==
    /\ pc = "delivered"
    /\ hist.fault = "stabilize"
    /\ hist.pages_extracted = 2
    /\ hist.advance_calls = 2
    /\ Cardinality(seen_urls) = 2
    /\ result.value.records = <<>>

\* C31: no step of a run removes, moves or changes a record that is in the
\* accumulated list: the list before a step is a prefix of the list after it,
\* so the list after page k is a prefix of the list after page k + 1.
C31_AppendOnly == [][IsPrefix(all_properties, all_properties')]_vars

\* a run without a fault over three pages that delivered its records: one of
\* the first page and one of the second, both in the list while the third
\* page was processed
C31_Witness ==
    /\ pc = "delivered"
    /\ hist.fault = "none"
    /\ hist.pages_extracted = 3
    /\ Len(all_properties) = 2
    /\ hist.origin[1][1] = 1
    /\ hist.origin[2][1] = 2
    /\ output.rows = all_properties

Urls(records) == {records[k].url : k \in 1..Len(records)}

\* C32: the dedup index is the set of the urls of the records the extractor
\* has emitted, those of the pages returned and those of the page in hand; in
\* particular it is so when a page's pass has ended.  A pass over a card puts
\* as many URLs into the index as it emits records, and the URL it puts in is
\* the url of the record it emits: once a URL is in, the card is emitted,
\* also when its attributes or its location raise.
C32_IndexIsEmittedUrls ==
    /\ seen_urls = Urls(all_properties) \cup Urls(ex.properties)
    /\ pc = "ex_done" => seen_urls = Urls(all_properties)
    /\ Passed =>
          /\ Cardinality(seen_urls \ ex.seen_before) = Len(ex.properties) - Len(ex.before)
          /\ seen_urls # ex.seen_before => seen_urls \ ex.seen_before = {LastRecord.url}

\* a page's pass has ended on a card whose list of attributes and whose
\* location both raised, and whose record is the second of the two emitted
C32_Witness ==
    /\ pc = "ex_done"
    /\ ~ex.card.attrs.ok
    /\ ex.card.loc.kind = "fault"
    /\ seen_urls # ex.seen_before
    /\ Len(all_properties) = 2
    /\ Cardinality(seen_urls) = 2
    /\ all_properties[2].url = <<BaseOrigin, "/", "MLC-2">>

\* the pass was over a card that classifies as project or multi-unit
Skipped ==
    /\ Passed
    /\ ex.card.html.ok
    /\ IsProject(ex.card.html.syms) \/ IsMultiUnit(ex.card.html.syms)

\* C33: a pass that classifies a card as project or multi-unit leaves the
\* dedup index as it was, and the URLs of that card's links are not reserved:
\* a later card of the page that is not excluded and has a link to one of
\* them, no record having that url yet, is emitted.
C33_ExcludedUrlNotReserved ==
    /\ Skipped => seen_urls = ex.seen_before
    /\ ( /\ Passed
         /\ ex.card.html.ok
         /\ ~ExcludedMarkup(ex.card.html.syms)
         /\ ex.card.links.ok
         /\ \E u \in NewUrls(ex.card, {}) \cap ex.skipped_urls :
               u \notin Urls(all_properties) \cup Urls(ex.before) )
       => /\ Len(ex.properties) = Len(ex.before) + 1
          /\ LastRecord.url \in NewUrls(ex.card, {})

\* a card whose only link resolves to a URL of a card skipped earlier on the
\* page was emitted with that url
C33_Witness ==
    /\ pc = "ex_loop"
    /\ Passed
    /\ ex.card = PlainCard(<<HrefText(RelU1)>>)
    /\ ex.skipped_proyecto > 0
    /\ AbsU1 \in ex.skipped_urls
    /\ Len(ex.properties) = Len(ex.before) + 1
    /\ LastRecord.url = AbsU1

ProjectMarkup(syms) == PillClass \in syms /\ syms \cap LabelForms # {}
UnitsMarkup(syms) == AvailableUnits \in syms \/ syms \cap UnitsForms # {}

\* C34: at every point of the card loop the cards accepted are as many as the
\* records of the page's list, the cards examined are as many as the passes
\* made, and they are at least the skipped and the accepted together.  A pass
\* counts its card as examined and adds one to at most one of the other three
\* counters: to the projects for a card with the project markers (also when
\* it has the multi-unit markers), to the multi-unit cards for a card with
\* those markers only, to the accepted exactly when it emits a record; it
\* adds to none exactly when the card's markup or list of links raised or the
\* card has no link to a URL not yet seen.
C34_CountersConsistent ==
    /\ [](/\ ex.added = Len(ex.properties)
          /\ ex.total_analyzed = ex.i
          /\ ex.total_analyzed >= ex.skipped_proyecto + ex.skipped_unidades + ex.added)
    /\ [][ (pc = "ex_loop" /\ ex'.i = ex.i + 1) =>
             LET dp == ex'.skipped_proyecto - ex.skipped_proyecto
                 du == ex'.skipped_unidades - ex.skipped_unidades
                 da == ex'.added - ex.added
                 card == ex'.card
             IN /\ ex'.total_analyzed = ex.total_analyzed + 1
                /\ {dp, du, da} \subseteq {0, 1}
                /\ dp + du + da <= 1
                /\ da = Len(ex'.properties) - Len(ex.properties)
                /\ (card.html.ok /\ ProjectMarkup(card.html.syms)) => dp = 1
                /\ (/\ card.html.ok
                    /\ ~ProjectMarkup(card.html.syms)
                    /\ UnitsMarkup(card.html.syms)) => du = 1
                /\ dp + du + da = 0 <=>
                      \/ ~card.html.ok
                      \/ /\ ~ExcludedMarkup(card.html.syms)
                         /\ (~card.links.ok \/ NewUrls(card, seen_urls) = {}) ]_vars

\* five cards were examined on a page: one with the project and the multi-unit
\* markers counted as a project, one counted as multi-unit, one accepted, and
\* two that were counted nowhere else
C34_Witness ==
    /\ pc = "ex_loop"
    /\ ex.total_analyzed = 5
    /\ ex.skipped_proyecto = 1
    /\ ex.skipped_unidades = 1
    /\ ex.added = 1
    /\ ex.card.html.syms = {PillClass, PillText, AvailableUnits}

\* the items read: those before the first one whose text could not be read
ItemsRead ==
    {k \in 1..Len(tx.attrs.items) : \A j \in 1..k : tx.attrs.items[j].ok}

\* the field an item's text stands for, by the precedence bedroom, bathroom,
\* area
FieldOf(t) ==
    IF HasKeyword(t, {"dormitorio", "Dormitorio", "DORMITORIO"}) THEN "dormitorios"
    ELSE IF HasKeyword(t, {"baño", "Baño", "BAÑO"}) THEN "banos"
    ELSE IF \E k \in 1..(Len(t) - 1) :
               \/ t[k] = "m" /\ t[k + 1] = "²"
               \/ t[k] \in {"m", "M"} /\ t[k + 1] = "2"
         THEN "superficie"
    ELSE "none"

\* the text has a number of the kind the field takes: a digit, and for the
\* area a digit that an m follows, blanks apart
YieldsNumber(t, field) ==
    IF field = "superficie"
    THEN \E k \in 1..Len(t) :
            /\ t[k] \in Digits
            /\ \E q \in (k + 1)..Len(t) :
                  t[q] = "m" /\ \A j \in (k + 1)..(q - 1) : t[j] = " "
    ELSE HasDigit(t)

\* v is what the field takes from the text: for a count the first run of
\* digits, for the area a part of the text that starts with a digit, followed
\* by " m²"
TakenFrom(v, t, field) ==
    IF field = "superficie"
    THEN /\ Len(v) > 3
         /\ SubSeq(v, Len(v) - 2, Len(v)) = <<" ", "m", "²">>
         /\ v[1] \in Digits
         /\ \E i \in 1..Len(t) :
               /\ i + Len(v) - 4 <= Len(t)
               /\ SubSeq(t, i, i + Len(v) - 4) = SubSeq(v, 1, Len(v) - 3)
    ELSE /\ DigitRunOf(v, t)
         /\ \E i \in 1..Len(t) :
               /\ \A j \in 1..(i - 1) : t[j] \notin Digits
               /\ i + Len(v) - 1 <= Len(t)
               /\ SubSeq(t, i, i + Len(v) - 1) = v
               /\ (i + Len(v) <= Len(t) => t[i + Len(v)] \notin Digits)

\* C35: when _extract_attributes has returned, each field is set from the
\* items read that stand for it, an item standing for one field only (for the
\* bedrooms when it has that keyword, whatever else it has; else for the
\* bathrooms when it has that keyword; else for the area when it has the area
\* marker; else for none): the field is unset when none of its items has a
\* number, and else holds what the last of its items that has a number gives.
C35_KeywordPrecedence ==
    (pc = "tx_done" /\ tx.attrs.ok) =>
        \A field \in {"dormitorios", "banos", "superficie"} :
            LET ks == {k \in ItemsRead :
                         /\ FieldOf(tx.attrs.items[k].text) = field
                         /\ YieldsNumber(tx.attrs.items[k].text, field)}
            IN IF ks = {} THEN tx.attributes[field] = None
               ELSE LET last == CHOOSE k \in ks : \A j \in ks : j <= k IN
                    /\ tx.attributes[field].some
                    /\ TakenFrom(tx.attributes[field].v, tx.attrs.items[last].text, field)

\* two items with the bedroom keyword, "3 dormitorios" and then
\* "2 dormitorios 80 m²": the bedrooms are 2 and the area is unset
C35_Witness ==
    /\ pc = "tx_done"
    /\ tx.attrs = Attrs(<<ItemText(<<"3", " ", "dormitorio", "s">>),
                          ItemText(<<"2", " ", "dormitorio", "s", " ", "8", "0", " ",
                                     "m", "²">>)>>)
    /\ tx.attributes = [dormitorios |-> Some(<<"2">>), banos |-> None,
                        superficie |-> None]

\* C36: shown the same pages and given the same answers of the advance, the
\* package and the script have processed the same pages and hold the same
\* records in the same order.
C36_SameRecords ==
    /\ simple.current_page = current_page
    /\ simple.running <=> pc = "both_loop"
    /\ Len(simple.all_properties) = Len(all_properties)
    /\ \A k \in 1..Len(all_properties) : simple.all_properties[k] = all_properties[k]

====
